---- MODULE Spec2Model ----
(***************************************************************************)
(* A model of rig-acp-discovery: the install pipeline (install/executor.rs,*)
(* install/prereq.rs), the detector it re-runs for verification            *)
(* (detect.rs, detection/*.rs) and the data they read (install/info.rs).   *)
(*                                                                         *)
(* Text is modelled by TLA+ strings; SubSeq, Head, Tail, Len and \o act on *)
(* them character by character.  Raw process output is a string of bytes   *)
(* in which the character "~" stands for a byte that is not valid UTF-8.   *)
(* Time is counted in whole seconds.                                       *)
(***************************************************************************)
EXTENDS Integers, Sequences, FiniteSets, TLC

(***************************************************************************)
(* Bounds of the model.                                                    *)
(***************************************************************************)
\* InstallOptions.timeout ranges over 0..MaxTimeout seconds.
MaxTimeout == 2

(***************************************************************************)
(* Program constants.                                                      *)
(***************************************************************************)
\* prereq.rs:13  const PREREQ_CHECK_TIMEOUT: Duration = Duration::from_secs(5)
PREREQ_CHECK_TIMEOUT == 5
\* options.rs:70  DetectOptions::default().timeout = Duration::from_secs(5)
DEFAULT_DETECT_TIMEOUT == 5
\* executor.rs:146  tokio::time::sleep(Duration::from_millis(500))
SETTLE_DELAY_MS == 500

\* Option<T>: None is the empty tuple, Some(x) the one-element tuple.
None == <<>>
Some(x) == <<x>>
IsSome(o) == o # <<>>
Unwrap(o) == o[1]

(***************************************************************************)
(* Text helpers: what str::contains, String::from_utf8_lossy,              *)
(* String::from_utf8 and str::trim do.                                     *)
(***************************************************************************)
CharAt(s, i) == IF 1 <= i /\ i <= Len(s) THEN SubSeq(s, i, i) ELSE ""

\* str::contains(sub): sub occurs at some offset of s (case-sensitive).
Contains(s, sub) ==
    \E i \in 1..(Len(s) - Len(sub) + 1) : SubSeq(s, i, i + Len(sub) - 1) = sub

\* String::from_utf8_lossy: every invalid byte becomes U+FFFD, written "?".
RECURSIVE from_utf8_lossy(_)
from_utf8_lossy(b) ==
    IF b = "" THEN ""
    ELSE (IF Head(b) = "~" THEN "?" ELSE Head(b)) \o from_utf8_lossy(Tail(b))

\* String::from_utf8 succeeds iff no byte is invalid.
ValidUtf8(b) == ~Contains(b, "~")

IsDigit(c) == c \in {"0", "1", "2", "3", "4", "5", "6", "7", "8", "9"}

DigitVal(c) ==
    CASE c = "0" -> 0 [] c = "1" -> 1 [] c = "2" -> 2 [] c = "3" -> 3
      [] c = "4" -> 4 [] c = "5" -> 5 [] c = "6" -> 6 [] c = "7" -> 7
      [] c = "8" -> 8 [] c = "9" -> 9

\* The value of a non-empty run of decimal digits.
RECURSIVE DecimalValue(_)
DecimalValue(s) ==
    IF s = "" THEN 0
    ELSE DecimalValue(SubSeq(s, 1, Len(s) - 1)) * 10 + DigitVal(CharAt(s, Len(s)))

\* The end of the maximal run of digits of s that starts at i (i - 1 if none).
RECURSIVE DigitsEnd(_, _)
DigitsEnd(s, i) ==
    IF i <= Len(s) /\ IsDigit(CharAt(s, i)) THEN DigitsEnd(s, i + 1) ELSE i - 1

\* Two runs of digits of the same length compared as numbers.
RECURSIVE DigitsLeq(_, _)
DigitsLeq(a, b) ==
    IF a = "" THEN TRUE
    ELSE IF DigitVal(Head(a)) < DigitVal(Head(b)) THEN TRUE
    ELSE IF DigitVal(Head(a)) > DigitVal(Head(b)) THEN FALSE
    ELSE DigitsLeq(Tail(a), Tail(b))

RECURSIVE StripLeadingZeros(_)
StripLeadingZeros(s) ==
    IF Len(s) > 1 /\ Head(s) = "0" THEN StripLeadingZeros(Tail(s)) ELSE s

\* str::parse::<u32>().ok() on a non-empty run of digits: None on overflow.
ParseU32(s) ==
    LET t == StripLeadingZeros(s) IN
    IF Len(t) < 10 \/ (Len(t) = 10 /\ DigitsLeq(t, "4294967295"))
    THEN Some(DecimalValue(t))
    ELSE None

Min(S) == CHOOSE x \in S : \A y \in S : x <= y

(***************************************************************************)
(* The agent catalog (agent_kind.rs, install/info.rs), as built for a      *)
(* non-Windows host.                                                       *)
(***************************************************************************)
AgentKind == {"ClaudeCode", "Codex", "OpenCode", "Gemini"}

executable_name(k) ==
    CASE k = "ClaudeCode" -> "claude" [] k = "Codex" -> "codex"
      [] k = "OpenCode" -> "opencode" [] k = "Gemini" -> "gemini"

display_name(k) ==
    CASE k = "ClaudeCode" -> "Claude Code" [] k = "Codex" -> "Codex"
      [] k = "OpenCode" -> "OpenCode" [] k = "Gemini" -> "Gemini CLI"

StructuredCommand(program, args) == [program |-> program, args |-> args]

claude_code_install_info ==
    [primary |-> StructuredCommand("bash",
                    <<"-c", "curl -fsSL https://claude.ai/install.sh | bash">>),
     alternatives |-> <<StructuredCommand("npm",
                    <<"install", "-g", "@anthropic-ai/claude-code">>)>>,
     prerequisites |-> <<>>,
     is_supported |-> TRUE,
     docs_url |-> "https://docs.anthropic.com/en/docs/claude-code"]

codex_install_info ==
    [primary |-> StructuredCommand("npm", <<"install", "-g", "@openai/codex">>),
     alternatives |-> <<>>,
     prerequisites |-> <<[name |-> "Node.js 18+",
                          check_command |-> Some("node --version"),
                          install_url |-> Some("https://nodejs.org")]>>,
     is_supported |-> TRUE,
     docs_url |-> "https://github.com/openai/codex"]

opencode_install_info ==
    [primary |-> StructuredCommand("bash",
                    <<"-c", "curl -fsSL https://opencode.ai/install | bash">>),
     alternatives |-> <<StructuredCommand("npm",
                    <<"install", "-g", "opencode-ai@latest">>)>>,
     prerequisites |-> <<>>,
     is_supported |-> TRUE,
     docs_url |-> "https://github.com/anomalyco/opencode"]

gemini_install_info ==
    [primary |-> StructuredCommand("npm", <<"install", "-g", "@google/gemini-cli">>),
     alternatives |-> <<>>,
     prerequisites |-> <<[name |-> "Node.js 20+",
                          check_command |-> Some("node --version"),
                          install_url |-> Some("https://nodejs.org")]>>,
     is_supported |-> TRUE,
     docs_url |-> "https://github.com/google-gemini/gemini-cli"]

\* AgentKind::install_info: the catalog entry of each agent.
install_info(k) ==
    CASE k = "ClaudeCode" -> claude_code_install_info
      [] k = "Codex" -> codex_install_info
      [] k = "OpenCode" -> opencode_install_info
      [] k = "Gemini" -> gemini_install_info

(***************************************************************************)
(* The catalog is data the pipeline only reads (InstallInfo's fields are   *)
(* public and the agent set is non-exhaustive).  Besides the entry that is *)
(* shipped, the pipeline is run on entries that differ from it in the      *)
(* fields its branches read: the platform-support flag, a prerequisite     *)
(* that declares no check command (types.rs:123-130, "npm"), one whose     *)
(* check command is blank, and prerequisites without an install URL.       *)
(***************************************************************************)
NpmPrerequisite ==
    [name |-> "npm", check_command |-> None, install_url |-> None]

BlankPrerequisite ==
    [name |-> "npm", check_command |-> Some("  "), install_url |-> None]

WithoutUrl(prereqs) ==
    [i \in 1..Len(prereqs) |-> [prereqs[i] EXCEPT !.install_url = None]]

InstallInfoInputs(k) ==
    { install_info(k),
      [install_info(k) EXCEPT !.is_supported = FALSE],
      [install_info(k) EXCEPT !.prerequisites = <<NpmPrerequisite>> \o @],
      [install_info(k) EXCEPT !.prerequisites = @ \o <<BlankPrerequisite>>],
      [install_info(k) EXCEPT !.prerequisites = WithoutUrl(@)] }

(***************************************************************************)
(* Results and errors (install/errors.rs).                                 *)
(***************************************************************************)
Pending == [tag |-> "Pending"]
Ok == [tag |-> "Ok"]
Err(e) == [tag |-> "Err", err |-> e]

\* InstallError::fix_suggestion: the fix field of whichever variant.
fix_suggestion(e) == e.fix

\* Option<String>::as_deref().unwrap_or(d)
UnwrapOr(o, d) == IF IsSome(o) THEN Unwrap(o) ELSE d

\* ExitStatus::success
Success(out) == out.code = Some(0)

\* {:?} of an Option<i32>
DebugOptionI32(o) == IF IsSome(o) THEN "Some(" \o ToString(Unwrap(o)) \o ")" ELSE "None"

\* {:?} of a Duration of whole seconds
DebugDuration(t) == ToString(t) \o "s"

\* io::Error::to_string for the error kinds a spawn or a wait can report.
IoErrorKinds == {"PermissionDenied", "NotFound", "BrokenPipe"}
IoErrorMessage(k) ==
    CASE k = "PermissionDenied" -> "Permission denied (os error 13)"
      [] k = "NotFound" -> "No such file or directory (os error 2)"
      [] k = "BrokenPipe" -> "Broken pipe (os error 32)"

(***************************************************************************)
(* check_prerequisite (install/prereq.rs:67-162), the part that is pure.   *)
(***************************************************************************)
\* str::split_whitespace
RECURSIVE split_whitespace(_)
split_whitespace(s) ==
    IF s = "" THEN <<>>
    ELSE IF Head(s) = " " THEN split_whitespace(Tail(s))
    ELSE LET stops == {i \in 1..Len(s) : CharAt(s, i) = " "}
             e == IF stops = {} THEN Len(s) ELSE Min(stops) - 1
         IN <<SubSeq(s, 1, e)>> \o split_whitespace(SubSeq(s, e + 1, Len(s)))

\* The leftmost match of v?(\d+)\.(\d+) in s: None, or the two captures.
VersionCaptures(s) ==
    LET From(i) == IF CharAt(s, i) = "v" THEN i + 1 ELSE i
        MajorEnd(i) == DigitsEnd(s, From(i))
        Matches(i) == /\ MajorEnd(i) >= From(i)
                      /\ CharAt(s, MajorEnd(i) + 1) = "."
                      /\ IsDigit(CharAt(s, MajorEnd(i) + 2))
        starts == {i \in 1..Len(s) : Matches(i)}
    IN IF starts = {} THEN None
       ELSE LET i == Min(starts) IN
            Some([major |-> SubSeq(s, From(i), MajorEnd(i)),
                  minor |-> SubSeq(s, MajorEnd(i) + 2, DigitsEnd(s, MajorEnd(i) + 2))])

\* The leftmost match of (\d+)\+ in s: None, or the capture.
MinVersionCapture(s) ==
    LET Matches(i) == /\ IsDigit(CharAt(s, i))
                      /\ CharAt(s, DigitsEnd(s, i) + 1) = "+"
        starts == {i \in 1..Len(s) : Matches(i)}
    IN IF starts = {} THEN None
       ELSE Some(SubSeq(s, Min(starts), DigitsEnd(s, Min(starts))))

PrerequisiteMissing(prereq) ==
    [variant |-> "PrerequisiteMissing",
     name |-> prereq.name,
     install_url |-> prereq.install_url,
     fix |-> "Install " \o prereq.name \o " from "
             \o UnwrapOr(prereq.install_url, "the official website")]

\* prereq.rs:68-77: no check command, or a blank one, is assumed satisfied.
HasCheckCommand(prereq) ==
    /\ IsSome(prereq.check_command)
    /\ split_whitespace(Unwrap(prereq.check_command)) # <<>>

\* prereq.rs:105-161: what check_prerequisite makes of the command's output.
check_prerequisite_output(prereq, out) ==
    LET output_str == IF out.stdout # "" THEN from_utf8_lossy(out.stdout)
                      ELSE from_utf8_lossy(out.stderr)
        caps == VersionCaptures(output_str)
        found_major == UnwrapOr(ParseU32(Unwrap(caps).major), 0)
        found_minor == UnwrapOr(ParseU32(Unwrap(caps).minor), 0)
        min_cap == MinVersionCapture(prereq.name)
        required_major == IF IsSome(min_cap) THEN UnwrapOr(ParseU32(Unwrap(min_cap)), 0)
                          ELSE 0
    IN IF ~IsSome(caps) THEN Err(PrerequisiteMissing(prereq))
       ELSE IF found_major < required_major
       THEN Err([variant |-> "PrerequisiteVersionMismatch",
                 name |-> prereq.name,
                 required |-> ToString(required_major) \o "+",
                 found |-> ToString(found_major) \o "." \o ToString(found_minor),
                 fix |-> "Upgrade " \o prereq.name \o " to version "
                         \o ToString(required_major) \o "+"])
       ELSE Ok

(***************************************************************************)
(* Detection (detection/path_finder.rs, version.rs, parser.rs, detect.rs). *)
(* The host is a record: the directories of PATH, HOME if set, the paths   *)
(* that exist and those among them that may be executed.                   *)
(***************************************************************************)
Join(dir, name) == dir \o "/" \o name

\* path_finder.rs:7  FALLBACK_PATHS on a non-Windows host
FALLBACK_PATHS == <<"/usr/local/bin", "/usr/bin">>

\* path_finder.rs:17-49, the Unix branch
get_home_paths(env, name) ==
    IF IsSome(env.home)
    THEN <<Unwrap(env.home) \o "/.local/bin/" \o name,
           Unwrap(env.home) \o "/bin/" \o name>>
    ELSE <<>>

\* The first element of a sequence that belongs to a set, as an Option.
FirstIn(seq, S) ==
    LET hits == {i \in 1..Len(seq) : seq[i] \in S}
    IN IF hits = {} THEN None ELSE Some(seq[Min(hits)])

\* which::which: the first PATH directory holding an executable file name.
which(env, name) ==
    FirstIn([i \in 1..Len(env.path) |-> Join(env.path[i], name)], env.executable)

\* find_executable, were the HOME candidate returned without looking for it.
find_executable_home_unchecked(env, name) ==
    LET in_path == which(env, name)
        in_fallback == FirstIn([i \in 1..Len(FALLBACK_PATHS) |->
                                   Join(FALLBACK_PATHS[i], name)], env.exists)
        in_home == get_home_paths(env, name)
    IN IF IsSome(in_path) THEN in_path
       ELSE IF IsSome(in_fallback) THEN in_fallback
       ELSE IF in_home # <<>> THEN Some(in_home[1])
       ELSE None

\* find_executable, were the system directories looked at before PATH.
find_executable_fallback_first(env, name) ==
    LET in_path == which(env, name)
        in_fallback == FirstIn([i \in 1..Len(FALLBACK_PATHS) |->
                                   Join(FALLBACK_PATHS[i], name)], env.exists)
    IN IF IsSome(in_fallback) THEN in_fallback
       ELSE IF IsSome(in_path) THEN in_path
       ELSE FirstIn(get_home_paths(env, name), env.exists)

\* path_finder.rs:64-82
find_executable(env, name) ==
    LET in_path == which(env, name)
        in_fallback == FirstIn([i \in 1..Len(FALLBACK_PATHS) |->
                                   Join(FALLBACK_PATHS[i], name)], env.exists)
    IN IF IsSome(in_path) THEN in_path
       ELSE IF IsSome(in_fallback) THEN in_fallback
       ELSE FirstIn(get_home_paths(env, name), env.exists)

\* check_version_output, were the two streams joined.
check_version_output_concatenated(out) ==
    IF ~Success(out) THEN Err("IoError")
    ELSE LET bytes == out.stdout \o out.stderr
         IN IF ValidUtf8(bytes) THEN [tag |-> "Ok", val |-> bytes]
            ELSE Err("VersionParseFailed")

\* version.rs:47-58: what check_version makes of a finished probe.
check_version_output(out) ==
    IF ~Success(out) THEN Err("IoError")
    ELSE LET bytes == IF out.stdout # "" THEN out.stdout ELSE out.stderr
         IN IF ValidUtf8(bytes) THEN [tag |-> "Ok", val |-> bytes]
            ELSE Err("VersionParseFailed")

\* check_version_io_error, were the kind of the error not looked at.
check_version_io_error_undistinguished(k) == Err("IoError")

\* version.rs:39-45: the error of a probe that could not be run.
check_version_io_error(k) ==
    IF k = "PermissionDenied" THEN Err("PermissionDenied") ELSE Err("IoError")

\* DetectionError::description
description(e) ==
    CASE e = "Timeout" -> "Detection timed out"
      [] e = "PermissionDenied" -> "Permission denied"
      [] e = "VersionParseFailed" -> "Failed to parse version"
      [] e = "IoError" -> "I/O error during detection"

IsSpace(c) == c \in {" ", "\n", "\t", "\r"}

\* trim, were only leading white space removed.
RECURSIVE trim_start_only(_)
trim_start_only(s) ==
    IF s # "" /\ IsSpace(Head(s)) THEN trim_start_only(Tail(s)) ELSE s

\* str::trim
RECURSIVE trim(_)
trim(s) ==
    IF s # "" /\ IsSpace(Head(s)) THEN trim(Tail(s))
    ELSE IF s # "" /\ IsSpace(CharAt(s, Len(s))) THEN trim(SubSeq(s, 1, Len(s) - 1))
    ELSE s

\* str::trim_start_matches(['v', 'V'])
RECURSIVE trim_start_v(_)
trim_start_v(s) ==
    IF s # "" /\ Head(s) \in {"v", "V"} THEN trim_start_v(Tail(s)) ELSE s

\* semver's numeric identifier: no leading zero, and within u64.
SemverNumber(d) ==
    /\ d # ""
    /\ \A i \in 1..Len(d) : IsDigit(CharAt(d, i))
    /\ (Len(d) > 1 => Head(d) # "0")
    /\ (Len(d) < 20 \/ (Len(d) = 20 /\ DigitsLeq(d, "18446744073709551615")))

\* semver::Version::parse on "X.Y.Z" of digits: None, or the version, whose
\* components are kept as their (canonical) decimal text.
VersionParse(a, b, c) ==
    IF SemverNumber(a) /\ SemverNumber(b) /\ SemverNumber(c)
    THEN Some([major |-> a, minor |-> b, patch |-> c])
    ELSE None

\* The leftmost match of [vV]?(\d+)\.(\d+)\.(\d+) in s.
Match3(s) ==
    LET From(i) == IF CharAt(s, i) \in {"v", "V"} THEN i + 1 ELSE i
        AEnd(i) == DigitsEnd(s, From(i))
        BEnd(i) == DigitsEnd(s, AEnd(i) + 2)
        CEnd(i) == DigitsEnd(s, BEnd(i) + 2)
        Matches(i) == /\ AEnd(i) >= From(i)
                      /\ CharAt(s, AEnd(i) + 1) = "."
                      /\ BEnd(i) >= AEnd(i) + 2
                      /\ CharAt(s, BEnd(i) + 1) = "."
                      /\ CEnd(i) >= BEnd(i) + 2
        starts == {i \in 1..Len(s) : Matches(i)}
    IN IF starts = {} THEN None
       ELSE LET i == Min(starts) IN
            Some([start |-> i, end |-> CEnd(i),
                  a |-> SubSeq(s, From(i), AEnd(i)),
                  b |-> SubSeq(s, AEnd(i) + 2, BEnd(i)),
                  c |-> SubSeq(s, BEnd(i) + 2, CEnd(i))])

\* The leftmost match of [vV]?(\d+)\.(\d+) in s.
Match2(s) ==
    LET From(i) == IF CharAt(s, i) \in {"v", "V"} THEN i + 1 ELSE i
        AEnd(i) == DigitsEnd(s, From(i))
        BEnd(i) == DigitsEnd(s, AEnd(i) + 2)
        Matches(i) == /\ AEnd(i) >= From(i)
                      /\ CharAt(s, AEnd(i) + 1) = "."
                      /\ BEnd(i) >= AEnd(i) + 2
        starts == {i \in 1..Len(s) : Matches(i)}
    IN IF starts = {} THEN None
       ELSE LET i == Min(starts) IN
            Some([start |-> i, end |-> BEnd(i),
                  a |-> SubSeq(s, From(i), AEnd(i)),
                  b |-> SubSeq(s, AEnd(i) + 2, BEnd(i))])

\* parse_version, were the two-part pattern tried before the three-part one.
parse_version_two_part_first(output) ==
    LET m3 == Match3(output)
        v3 == VersionParse(Unwrap(m3).a, Unwrap(m3).b, Unwrap(m3).c)
        m2 == Match2(output)
        v2 == VersionParse(Unwrap(m2).a, Unwrap(m2).b, "0")
        Raw(m) == SubSeq(output, m.start, m.end)
        followed == /\ CharAt(output, Unwrap(m2).end + 1) = "."
                    /\ IsDigit(CharAt(output, Unwrap(m2).end + 2))
    IN IF IsSome(m2) /\ ~followed /\ IsSome(v2)
       THEN Some(<<Unwrap(v2), Raw(Unwrap(m2))>>)
       ELSE IF IsSome(m3) /\ IsSome(v3) THEN Some(<<Unwrap(v3), Raw(Unwrap(m3))>>)
       ELSE None

\* parse_version, were a two-part match taken without looking at what
\* follows it.
parse_version_truncating(output) ==
    LET m3 == Match3(output)
        v3 == VersionParse(Unwrap(m3).a, Unwrap(m3).b, Unwrap(m3).c)
        m2 == Match2(output)
        v2 == VersionParse(Unwrap(m2).a, Unwrap(m2).b, "0")
        Raw(m) == SubSeq(output, m.start, m.end)
    IN IF IsSome(m3) /\ IsSome(v3) THEN Some(<<Unwrap(v3), Raw(Unwrap(m3))>>)
       ELSE IF ~IsSome(m2) THEN None
       ELSE IF IsSome(v2) THEN Some(<<Unwrap(v2), Raw(Unwrap(m2))>>)
       ELSE None

\* parse_version, were the captured numbers taken as they are.
parse_version_unvalidated(output) ==
    LET m3 == Match3(output)
        m2 == Match2(output)
        Raw(m) == SubSeq(output, m.start, m.end)
    IN IF IsSome(m3)
       THEN Some(<<[major |-> Unwrap(m3).a, minor |-> Unwrap(m3).b,
                    patch |-> Unwrap(m3).c], Raw(Unwrap(m3))>>)
       ELSE IF ~IsSome(m2) THEN None
       ELSE Some(<<[major |-> Unwrap(m2).a, minor |-> Unwrap(m2).b, patch |-> "0"],
                   Raw(Unwrap(m2))>>)

\* parser.rs:30-75: None, or Some(<<version, raw_match>>).
parse_version(output) ==
    LET m3 == Match3(output)
        v3 == VersionParse(Unwrap(m3).a, Unwrap(m3).b, Unwrap(m3).c)
        m2 == Match2(output)
        v2 == VersionParse(Unwrap(m2).a, Unwrap(m2).b, "0")
        Raw(m) == SubSeq(output, m.start, m.end)
    IN IF IsSome(m3) /\ IsSome(v3) THEN Some(<<Unwrap(v3), Raw(Unwrap(m3))>>)
       ELSE IF ~IsSome(m2) THEN None
       ELSE IF /\ CharAt(output, Unwrap(m2).end + 1) = "."
               /\ IsDigit(CharAt(output, Unwrap(m2).end + 2)) THEN None
       ELSE IF IsSome(v2) THEN Some(<<Unwrap(v2), Raw(Unwrap(m2))>>)
       ELSE None

\* detect.rs:290-327, the non-Windows build
detect_install_method(path) ==
    IF Contains(path, ".npm") \/ Contains(path, "node_modules") THEN Some("npm")
    ELSE IF Contains(path, ".cargo") THEN Some("cargo")
    ELSE IF Contains(path, "homebrew") \/ Contains(path, "linuxbrew") THEN Some("brew")
    ELSE IF Contains(path, "mise") THEN Some("mise")
    ELSE None

NotInstalled == [variant |-> "NotInstalled"]

\* detect.rs:104-111 and 145-152.  last_verified, a reading of the wall
\* clock, is not carried.
Installed(path, version, raw_version) ==
    [variant |-> "Installed",
     path |-> path, version |-> version, raw_version |-> raw_version,
     install_method |-> detect_install_method(path),
     reasoning_level |-> None]

\* detect_from_probe, were a timed-out probe reported like any other error.
detect_from_probe_timeout_as_unknown(k, path, probed) ==
    IF probed.tag = "Err"
    THEN [variant |-> "Unknown", error |-> probed.err,
          message |-> "Failed to verify " \o display_name(k) \o ": "
                      \o description(probed.err)]
    ELSE LET parsed == parse_version(probed.val)
         IN IF IsSome(parsed)
            THEN Installed(path, Some(Unwrap(parsed)[1]), Some(Unwrap(parsed)[2]))
            ELSE Installed(path, None, Some(trim(probed.val)))

\* detect_from_probe, were every probe error reported as IoError.
detect_from_probe_errors_as_io(k, path, probed) ==
    IF probed.tag = "Err"
    THEN IF probed.err = "Timeout" THEN NotInstalled
         ELSE [variant |-> "Unknown", error |-> "IoError",
               message |-> "Failed to verify " \o display_name(k) \o ": "
                           \o description("IoError")]
    ELSE LET parsed == parse_version(probed.val)
         IN IF IsSome(parsed)
            THEN Installed(path, Some(Unwrap(parsed)[1]), Some(Unwrap(parsed)[2]))
            ELSE Installed(path, None, Some(trim(probed.val)))

\* detect_from_probe, were a version below 1.0.0 held against the agent.
detect_from_probe_enforcing_minimum(k, path, probed) ==
    IF probed.tag = "Err"
    THEN IF probed.err = "Timeout" THEN NotInstalled
         ELSE [variant |-> "Unknown", error |-> probed.err,
               message |-> "Failed to verify " \o display_name(k) \o ": "
                           \o description(probed.err)]
    ELSE LET parsed == parse_version(probed.val)
         IN IF IsSome(parsed)
            THEN IF Unwrap(parsed)[1].major = "0"
                 THEN [variant |-> "VersionMismatch", path |-> path,
                       found |-> Unwrap(parsed)[1],
                       required |-> [major |-> "1", minor |-> "0", patch |-> "0"]]
                 ELSE Installed(path, Some(Unwrap(parsed)[1]), Some(Unwrap(parsed)[2]))
            ELSE Installed(path, None, Some(trim(probed.val)))

\* detect_from_probe, were the raw output dropped when no version parses.
detect_from_probe_raw_dropped(k, path, probed) ==
    IF probed.tag = "Err"
    THEN IF probed.err = "Timeout" THEN NotInstalled
         ELSE [variant |-> "Unknown", error |-> probed.err,
               message |-> "Failed to verify " \o display_name(k) \o ": "
                           \o description(probed.err)]
    ELSE LET parsed == parse_version(probed.val)
         IN IF IsSome(parsed)
            THEN Installed(path, Some(Unwrap(parsed)[1]), Some(Unwrap(parsed)[2]))
            ELSE Installed(path, None, None)

\* detect.rs:114-152: the status detect_with_options builds from the result
\* of check_version on the resolved path.
detect_from_probe(k, path, probed) ==
    IF probed.tag = "Err"
    THEN IF probed.err = "Timeout" THEN NotInstalled
         ELSE [variant |-> "Unknown", error |-> probed.err,
               message |-> "Failed to verify " \o display_name(k) \o ": "
                           \o description(probed.err)]
    ELSE LET parsed == parse_version(probed.val)
         IN IF IsSome(parsed)
            THEN Installed(path, Some(Unwrap(parsed)[1]), Some(Unwrap(parsed)[2]))
            ELSE Installed(path, None, Some(trim(probed.val)))

\* is_usable, were it to reject only NotInstalled.
is_usable_unless_not_installed(status) == status.variant # "NotInstalled"

\* AgentStatus::is_usable
is_usable(status) == status.variant = "Installed"

(***************************************************************************)
(* install (install/executor.rs), the parts that are pure.                 *)
(***************************************************************************)
\* is_network, were the "resolve" marker left out.
is_network_without_resolve(stderr) ==
    \/ Contains(stderr, "network")
    \/ Contains(stderr, "connection")
    \/ Contains(stderr, "ETIMEDOUT")
    \/ Contains(stderr, "ENOTFOUND")

\* executor.rs:119-123
is_network(stderr) ==
    \/ Contains(stderr, "network")
    \/ Contains(stderr, "connection")
    \/ Contains(stderr, "resolve")
    \/ Contains(stderr, "ETIMEDOUT")
    \/ Contains(stderr, "ENOTFOUND")

\* install_io_error, were the permission case not told apart.
install_io_error_undistinguished(k) ==
    Err([variant |-> "InstallerFailed",
         message |-> IoErrorMessage(k),
         exit_code |-> None, stdout |-> None, stderr |-> None,
         fix |-> "Check the command and try again"])

\* executor.rs:86-101: command.output() returned an io::Error
install_io_error(k) ==
    IF k = "PermissionDenied"
    THEN Err([variant |-> "PermissionDenied",
              message |-> IoErrorMessage(k),
              fix |-> "Try running with appropriate permissions"])
    ELSE Err([variant |-> "InstallerFailed",
              message |-> IoErrorMessage(k),
              exit_code |-> None, stdout |-> None, stderr |-> None,
              fix |-> "Check the command and try again"])

\* install_timed_out, were the elapsed timeout reported as a failed installer.
install_timed_out_as_failure(opts) ==
    Err([variant |-> "InstallerFailed",
         message |-> "Installation timed out",
         exit_code |-> None, stdout |-> None, stderr |-> None,
         fix |-> "Check the command and try again"])

\* executor.rs:102-110
install_timed_out(opts) ==
    Err([variant |-> "Timeout",
         duration |-> opts.timeout,
         fix |-> "Installation timed out after " \o DebugDuration(opts.timeout)
                 \o ". Try with a longer timeout or check network."])

\* executor.rs:113-140: Ok when the installer succeeded, else the error
install_exit_status(out) ==
    LET stdout == from_utf8_lossy(out.stdout)
        stderr == from_utf8_lossy(out.stderr)
    IN IF Success(out) THEN Ok
       ELSE IF is_network(stderr)
       THEN Err([variant |-> "Network",
                 message |-> "Network error during installation",
                 stderr |-> Some(stderr),
                 fix |-> "Check your internet connection and try again"])
       ELSE Err([variant |-> "InstallerFailed",
                 message |-> "Installer exited with code " \o DebugOptionI32(out.code),
                 exit_code |-> out.code,
                 stdout |-> Some(stdout),
                 stderr |-> Some(stderr),
                 fix |-> "See installer output above for details"])

\* VerificationFailed, were its fix left empty.
VerificationFailed_without_fix(k) ==
    [variant |-> "VerificationFailed", agent |-> k, fix |-> ""]

\* executor.rs:150-153
VerificationFailed(k) ==
    [variant |-> "VerificationFailed", agent |-> k,
     fix |-> "Installation completed but agent not found. You may need to restart your terminal for PATH changes to take effect."]

(***************************************************************************)
(* The hosts and the child-process behaviours the pipeline is run against. *)
(***************************************************************************)
HostHome == "/home/u"
HostPath == <<"/home/u/.npm-global/bin">>

Host(exists, executable) ==
    [path |-> HostPath, home |-> Some(HostHome),
     exists |-> exists, executable |-> executable]

\* Hosts for agent k: its executable absent; on PATH; present but not
\* executable in a system directory; executable under HOME only.
EnvInputs(k) ==
    LET n == executable_name(k) IN
    { Host({}, {}),
      Host({Join(HostPath[1], n)}, {Join(HostPath[1], n)}),
      Host({Join(FALLBACK_PATHS[1], n)}, {}),
      Host({HostHome \o "/.local/bin/" \o n}, {HostHome \o "/.local/bin/" \o n}) }

Output(code, stdout, stderr) == [code |-> code, stdout |-> stdout, stderr |-> stderr]

\* Exit statuses: zero, non-zero, and killed by a signal (no exit code).
ExitCodes == {Some(0), Some(1), None}

PrereqOutputs ==
    {Output(c, so, se) : c \in {Some(0), Some(1)},
                         so \in {"v20.11.0\n", "v18.0.0\n", "v16.3.1\n", ""},
                         se \in {"", "node: command not found"}}

InstallOutputs ==
    {Output(c, so, se) : c \in ExitCodes,
                         so \in {"", "added 1 package"},
                         se \in {"", "npm ERR! network request failed",
                                 "curl: (6) Could not resolve host",
                                 "connect ETIMEDOUT 104.16.0.35:443",
                                 "getaddrinfo ENOTFOUND registry.npmjs.org",
                                 "Connection refused", "request timed out",
                                 "EACCES: permission denied ~"}}

ProbeOutputs ==
    {Output(c, so, se) : c \in ExitCodes,
                         so \in {"2.1.12 (Claude Code)\n", "dev build\n", "", "~"},
                         se \in {"", "codex-cli 0.87.0"}}

(***************************************************************************)
(* State.                                                                  *)
(***************************************************************************)
VARIABLES
    kind,       \* install's argument: the agent
    options,    \* install's argument: InstallOptions
    info,       \* the catalog entry install_info() returns for kind
    env,        \* the host: PATH, HOME, the files that exist
    pc,         \* where the install call stands
    trace,      \* what the call has done so far, in order: the progress
                \* events handed to on_progress and its dealings with the OS
    children,   \* the child processes spawned by the call
    elapsed,    \* seconds waited so far in the current timeout()
    prereq_i,   \* can_install's position in info.prerequisites
    status,     \* the AgentStatus of the verification's detect()
    cause,      \* what the OS did that ended the call, once it has ended
    result      \* what install returned, Pending until it returns

vars == <<kind, options, info, env, pc, trace, children, elapsed, prereq_i,
          status, cause, result>>

Progress(p) == [t |-> "progress", p |-> p]
Started(k) == [stage |-> "Started", agent |-> k]
CheckingPrerequisites == [stage |-> "CheckingPrerequisites"]
Installing(k) == [stage |-> "Installing", agent |-> k]
Verifying(k) == [stage |-> "Verifying", agent |-> k]
Completed(k) == [stage |-> "Completed", agent |-> k]

\* Command::spawn: the child joins the process table when it could be started.
Spawned(role, program, args) ==
    Append(children, [role |-> role, program |-> program, args |-> args,
                      state |-> "running"])
SpawnEntry(role, ok) == [t |-> "spawn", role |-> role, ok |-> ok]
ExitEntry(role, code) == [t |-> "exit", role |-> role, code |-> code]

\* The awaited child is the last one spawned.  It exits by itself, or it is
\* killed when its future is dropped (kill_on_drop(true)).
Finish(state) == [children EXCEPT ![Len(children)].state = state]

Return(r, c) ==
    /\ result' = r
    /\ cause' = c
    /\ pc' = "done"

Init ==
    /\ kind \in AgentKind
    /\ options \in [timeout : 0..MaxTimeout]
    /\ info \in InstallInfoInputs(kind)
    /\ env \in EnvInputs(kind)
    /\ pc = "start"
    /\ trace = <<>>
    /\ children = <<>>
    /\ elapsed = 0
    /\ prereq_i = 1
    /\ status = None
    /\ cause = None
    /\ result = Pending

(***************************************************************************)
(* install (install/executor.rs:55-159) and can_install, which it awaits   *)
(* (install/prereq.rs:45-162), one action per step between two effects.    *)
(***************************************************************************)
\* executor.rs:60
install_Started ==
    /\ pc = "start"
    /\ trace' = Append(trace, Progress(Started(kind)))
    /\ pc' = "report_prereq"
    /\ UNCHANGED <<kind, options, info, env, children, elapsed, prereq_i, status,
                   cause, result>>

\* install_CheckingPrerequisites, were the event not reported.
install_CheckingPrerequisites_unreported ==
    /\ pc = "report_prereq"
    /\ pc' = "can_install"
    /\ UNCHANGED <<kind, options, info, env, trace, children, elapsed, prereq_i,
                   status, cause, result>>

\* executor.rs:63
install_CheckingPrerequisites ==
    /\ pc = "report_prereq"
    /\ trace' = Append(trace, Progress(CheckingPrerequisites))
    /\ pc' = "can_install"
    /\ UNCHANGED <<kind, options, info, env, children, elapsed, prereq_i, status,
                   cause, result>>

\* can_install_platform, were the support flag not consulted.
can_install_platform_unchecked ==
    /\ pc = "can_install"
    /\ pc' = "prereq"
    /\ prereq_i' = 1
    /\ UNCHANGED <<kind, options, info, env, trace, children, elapsed, status,
                   cause, result>>

\* prereq.rs:46-54, and the ? of executor.rs:64
can_install_platform ==
    /\ pc = "can_install"
    /\ IF ~info.is_supported
       THEN /\ Return(Err([variant |-> "UnsupportedPlatform", agent |-> kind,
                           fix |-> "See " \o info.docs_url
                                   \o " for supported platforms"]),
                      Some([stage |-> "platform", what |-> "unsupported"]))
            /\ UNCHANGED prereq_i
       ELSE /\ pc' = "prereq"
            /\ prereq_i' = 1
            /\ UNCHANGED <<cause, result>>
    /\ UNCHANGED <<kind, options, info, env, trace, children, elapsed, status>>

\* prereq.rs:57-59 and 68-77: a prerequisite without a check command
check_prerequisite_skip ==
    /\ pc = "prereq"
    /\ prereq_i <= Len(info.prerequisites)
    /\ ~HasCheckCommand(info.prerequisites[prereq_i])
    /\ prereq_i' = prereq_i + 1
    /\ UNCHANGED <<kind, options, info, env, pc, trace, children, elapsed, status,
                   cause, result>>

\* prereq.rs:79-103: the check command is spawned, or cannot be
check_prerequisite_spawn ==
    /\ pc = "prereq"
    /\ prereq_i <= Len(info.prerequisites)
    /\ HasCheckCommand(info.prerequisites[prereq_i])
    /\ LET prereq == info.prerequisites[prereq_i]
           parts == split_whitespace(Unwrap(prereq.check_command))
       IN \/ /\ trace' = Append(trace, SpawnEntry("prereq", TRUE))
             /\ children' = Spawned("prereq", parts[1], Tail(parts))
             /\ elapsed' = 0
             /\ pc' = "prereq_wait"
             /\ UNCHANGED <<cause, result>>
          \/ \E k \in IoErrorKinds :
             /\ trace' = Append(trace, SpawnEntry("prereq", FALSE))
             /\ Return(Err(PrerequisiteMissing(prereq)),
                       Some([stage |-> "prereq", what |-> "spawn_error", error |-> k]))
             /\ UNCHANGED <<children, elapsed>>
    /\ UNCHANGED <<kind, options, info, env, prereq_i, status>>

\* prereq.rs:86-87 and 105-161: the check command ran to its end
check_prerequisite_exit ==
    /\ pc = "prereq_wait"
    /\ \E out \in PrereqOutputs :
          LET r == check_prerequisite_output(info.prerequisites[prereq_i], out)
          IN /\ children' = Finish("exited")
             /\ trace' = Append(trace, ExitEntry("prereq", out.code))
             /\ IF r = Ok
                THEN /\ prereq_i' = prereq_i + 1
                     /\ pc' = "prereq"
                     /\ UNCHANGED <<cause, result>>
                ELSE /\ Return(r, Some([stage |-> "prereq", what |-> "exit", out |-> out]))
                     /\ UNCHANGED prereq_i
    /\ UNCHANGED <<kind, options, info, env, elapsed, status>>

\* prereq.rs:88-102, Ok(Err(_)): waiting for the child failed
check_prerequisite_wait_error ==
    /\ pc = "prereq_wait"
    /\ \E k \in IoErrorKinds :
          Return(Err(PrerequisiteMissing(info.prerequisites[prereq_i])),
                 Some([stage |-> "prereq", what |-> "wait_error", error |-> k]))
    /\ children' = Finish("killed")
    /\ UNCHANGED <<kind, options, info, env, trace, elapsed, prereq_i, status>>

\* install_timeout, were the installer left running when the timeout fires.
install_timeout_child_abandoned ==
    /\ pc = "install_wait"
    /\ elapsed >= options.timeout
    /\ Return(install_timed_out(options), Some([stage |-> "install", what |-> "timeout"]))
    /\ UNCHANGED <<kind, options, info, env, trace, children, elapsed, prereq_i,
                   status>>

\* check_prerequisite_timeout, were the elapsed check reported as an
\* install timeout.
check_prerequisite_timeout_as_install_timeout ==
    /\ pc = "prereq_wait"
    /\ elapsed >= PREREQ_CHECK_TIMEOUT
    /\ Return(install_timed_out(options),
              Some([stage |-> "prereq", what |-> "timeout"]))
    /\ children' = Finish("killed")
    /\ UNCHANGED <<kind, options, info, env, trace, elapsed, prereq_i, status>>

\* prereq.rs:88-102, Err(_): PREREQ_CHECK_TIMEOUT elapsed first
check_prerequisite_timeout ==
    /\ pc = "prereq_wait"
    /\ elapsed >= PREREQ_CHECK_TIMEOUT
    /\ Return(Err(PrerequisiteMissing(info.prerequisites[prereq_i])),
              Some([stage |-> "prereq", what |-> "timeout"]))
    /\ children' = Finish("killed")
    /\ UNCHANGED <<kind, options, info, env, trace, elapsed, prereq_i, status>>

\* install_Installing, were the event reported only once the command is
\* spawned.
install_Installing_after_spawn ==
    /\ pc = "prereq"
    /\ prereq_i > Len(info.prerequisites)
    /\ trace' = trace \o <<SpawnEntry("install", TRUE), Progress(Installing(kind))>>
    /\ children' = Spawned("install", info.primary.program, info.primary.args)
    /\ elapsed' = 0
    /\ pc' = "install_wait"
    /\ UNCHANGED <<kind, options, info, env, prereq_i, status, cause, result>>

\* prereq.rs:61, executor.rs:66-79: can_install returned Ok; the command is
\* built (not yet spawned) and Installing is reported.
install_Installing ==
    /\ pc = "prereq"
    /\ prereq_i > Len(info.prerequisites)
    /\ trace' = Append(trace, Progress(Installing(kind)))
    /\ pc' = "spawn_install"
    /\ UNCHANGED <<kind, options, info, env, children, elapsed, prereq_i, status,
                   cause, result>>

\* executor.rs:67-81: the first poll of command.output() spawns the primary
\* command, whatever the timeout; executor.rs:86-101 when it cannot be.
install_spawn ==
    /\ pc = "spawn_install"
    /\ LET cmd == info.primary
       IN \/ /\ trace' = Append(trace, SpawnEntry("install", TRUE))
             /\ children' = Spawned("install", cmd.program, cmd.args)
             /\ elapsed' = 0
             /\ pc' = "install_wait"
             /\ UNCHANGED <<cause, result>>
          \/ \E k \in IoErrorKinds :
             /\ trace' = Append(trace, SpawnEntry("install", FALSE))
             /\ Return(install_io_error(k),
                       Some([stage |-> "install", what |-> "spawn_error", error |-> k]))
             /\ UNCHANGED <<children, elapsed>>
    /\ UNCHANGED <<kind, options, info, env, prereq_i, status>>

\* install_exit, were a failed primary command followed by the agent's first
\* alternative command.
install_exit_falling_back ==
    /\ pc = "install_wait"
    /\ env' \in EnvInputs(kind)
    /\ \E out \in InstallOutputs :
          LET r == install_exit_status(out)
              alt == info.alternatives
          IN IF r = Ok
             THEN /\ trace' = trace \o <<ExitEntry("install", out.code),
                                          Progress(Verifying(kind))>>
                  /\ children' = Finish("exited")
                  /\ pc' = "settle"
                  /\ UNCHANGED <<cause, result>>
             ELSE IF alt # <<>> /\ Len(children) <= Len(info.prerequisites) + 1
             THEN /\ trace' = trace \o <<ExitEntry("install", out.code),
                                          SpawnEntry("install", TRUE)>>
                  /\ children' = Append(Finish("exited"),
                                        [role |-> "install", program |-> alt[1].program,
                                         args |-> alt[1].args, state |-> "running"])
                  /\ UNCHANGED <<pc, cause, result>>
             ELSE /\ trace' = Append(trace, ExitEntry("install", out.code))
                  /\ children' = Finish("exited")
                  /\ Return(r, Some([stage |-> "install", what |-> "exit", out |-> out]))
    /\ UNCHANGED <<kind, options, info, elapsed, prereq_i, status>>

\* executor.rs:85 and 113-143: the installer ran to its end within the
\* timeout, leaving the host as it pleased; on success Verifying is reported.
install_exit ==
    /\ pc = "install_wait"
    /\ children' = Finish("exited")
    /\ env' \in EnvInputs(kind)
    /\ \E out \in InstallOutputs :
          LET r == install_exit_status(out)
          IN IF r = Ok
             THEN /\ trace' = trace \o <<ExitEntry("install", out.code),
                                          Progress(Verifying(kind))>>
                  /\ pc' = "settle"
                  /\ UNCHANGED <<cause, result>>
             ELSE /\ trace' = Append(trace, ExitEntry("install", out.code))
                  /\ Return(r, Some([stage |-> "install", what |-> "exit", out |-> out]))
    /\ UNCHANGED <<kind, options, info, elapsed, prereq_i, status>>

\* executor.rs:86-101: waiting for the installer, or reading its output, failed
install_wait_error ==
    /\ pc = "install_wait"
    /\ \E k \in IoErrorKinds :
          Return(install_io_error(k),
                 Some([stage |-> "install", what |-> "wait_error", error |-> k]))
    /\ children' = Finish("killed")
    /\ UNCHANGED <<kind, options, info, env, trace, elapsed, prereq_i, status>>

\* executor.rs:102-110: options.timeout elapsed first; the dropped future
\* kills the child.
install_timeout ==
    /\ pc = "install_wait"
    /\ elapsed >= options.timeout
    /\ Return(install_timed_out(options), Some([stage |-> "install", what |-> "timeout"]))
    /\ children' = Finish("killed")
    /\ UNCHANGED <<kind, options, info, env, trace, elapsed, prereq_i, status>>

\* executor.rs:146
install_settle ==
    /\ pc = "settle"
    /\ trace' = Append(trace, [t |-> "sleep", ms |-> SETTLE_DELAY_MS])
    /\ pc' = "detect"
    /\ UNCHANGED <<kind, options, info, env, children, elapsed, prereq_i, status,
                   cause, result>>

(***************************************************************************)
(* The verification's detect(kind) (detect.rs:55-57, 95-153) and           *)
(* check_version (detection/version.rs:29-59), which it awaits.            *)
(***************************************************************************)
\* DetectOptionsDefault, were the probe given the install's timeout.
DetectOptionsOfInstall == [timeout |-> options.timeout, skip_version |-> FALSE]

\* options.rs:67-74  DetectOptions::default()
DetectOptionsDefault == [timeout |-> DEFAULT_DETECT_TIMEOUT, skip_version |-> FALSE]

Detected(st) ==
    /\ status' = Some(st)
    /\ pc' = "verified"

\* detect.rs:97-115, version.rs:33-45: the executable is resolved; unless
\* versions are skipped, the probe is spawned, or cannot be.  A file that
\* may not be executed fails to spawn with PermissionDenied.
detect_begin ==
    /\ pc = "detect"
    /\ LET opts == DetectOptionsDefault
           found == find_executable(env, executable_name(kind))
           path == Unwrap(found)
           Log(e) == trace' = trace \o <<[t |-> "detect", agent |-> kind]>> \o e
       IN IF ~IsSome(found)
          THEN /\ Log(<<>>)
               /\ Detected(NotInstalled)
               /\ UNCHANGED <<children, elapsed>>
          ELSE IF opts.skip_version
          THEN /\ Log(<<>>)
               /\ Detected(Installed(path, None, None))
               /\ UNCHANGED <<children, elapsed>>
          ELSE \/ /\ path \in env.executable
                  /\ Log(<<SpawnEntry("probe", TRUE)>>)
                  /\ children' = Spawned("probe", path, <<"--version">>)
                  /\ elapsed' = 0
                  /\ pc' = "probe_wait"
                  /\ UNCHANGED status
               \/ \E k \in IoErrorKinds :
                  /\ path \notin env.executable => k = "PermissionDenied"
                  /\ Log(<<SpawnEntry("probe", FALSE)>>)
                  /\ Detected(detect_from_probe(kind, path, check_version_io_error(k)))
                  /\ UNCHANGED <<children, elapsed>>
    /\ UNCHANGED <<kind, options, info, env, prereq_i, cause, result>>

\* version.rs:36-58, detect.rs:115-152: the probe ran to its end
probe_exit ==
    /\ pc = "probe_wait"
    /\ children' = Finish("exited")
    /\ \E out \in ProbeOutputs :
          /\ trace' = Append(trace, ExitEntry("probe", out.code))
          /\ Detected(detect_from_probe(kind, children[Len(children)].program,
                                        check_version_output(out)))
    /\ UNCHANGED <<kind, options, info, env, elapsed, prereq_i, cause, result>>

\* version.rs:39-45: waiting for the probe failed
probe_wait_error ==
    /\ pc = "probe_wait"
    /\ children' = Finish("killed")
    /\ \E k \in IoErrorKinds :
          Detected(detect_from_probe(kind, children[Len(children)].program,
                                     check_version_io_error(k)))
    /\ UNCHANGED <<kind, options, info, env, trace, elapsed, prereq_i, cause, result>>

\* probe_timeout, were the probe awaited without a timeout: the wait ends
\* only once the child is no longer running.
probe_awaited_without_timeout ==
    /\ pc = "probe_wait"
    /\ children[Len(children)].state # "running"
    /\ Detected(detect_from_probe(kind, children[Len(children)].program,
                                  Err("Timeout")))
    /\ UNCHANGED <<kind, options, info, env, trace, children, elapsed, prereq_i,
                   cause, result>>

\* version.rs:36-38, detect.rs:117: the probe's timeout elapsed first
probe_timeout ==
    /\ pc = "probe_wait"
    /\ elapsed >= DetectOptionsDefault.timeout
    /\ children' = Finish("killed")
    /\ Detected(detect_from_probe(kind, children[Len(children)].program,
                                  Err("Timeout")))
    /\ UNCHANGED <<kind, options, info, env, trace, elapsed, prereq_i, cause, result>>

\* install_verified, were Completed not reported on success.
install_verified_unreported ==
    /\ pc = "verified"
    /\ IF ~is_usable(Unwrap(status))
       THEN Return(Err(VerificationFailed(kind)),
                   Some([stage |-> "verify", what |-> "not_usable"]))
       ELSE Return(Ok, Some([stage |-> "verify", what |-> "usable"]))
    /\ UNCHANGED <<kind, options, info, env, trace, children, elapsed, prereq_i,
                   status>>

\* install_verified, were Completed reported before the status is looked at.
install_verified_completed_first ==
    /\ pc = "verified"
    /\ trace' = Append(trace, Progress(Completed(kind)))
    /\ IF ~is_usable(Unwrap(status))
       THEN Return(Err(VerificationFailed(kind)),
                   Some([stage |-> "verify", what |-> "not_usable"]))
       ELSE Return(Ok, Some([stage |-> "verify", what |-> "usable"]))
    /\ UNCHANGED <<kind, options, info, env, children, elapsed, prereq_i, status>>

\* executor.rs:149-158
install_verified ==
    /\ pc = "verified"
    /\ IF ~is_usable(Unwrap(status))
       THEN /\ Return(Err(VerificationFailed(kind)),
                      Some([stage |-> "verify", what |-> "not_usable"]))
            /\ UNCHANGED trace
       ELSE /\ trace' = Append(trace, Progress(Completed(kind)))
            /\ Return(Ok, Some([stage |-> "verify", what |-> "usable"]))
    /\ UNCHANGED <<kind, options, info, env, children, elapsed, prereq_i, status>>

\* The deadline of the timeout() the call is waiting in.
Deadline ==
    CASE pc = "prereq_wait" -> PREREQ_CHECK_TIMEOUT
      [] pc = "install_wait" -> options.timeout
      [] pc = "probe_wait" -> DetectOptionsDefault.timeout
      [] OTHER -> 0

\* A second passes while the call waits for a child.
Tick ==
    /\ pc \in {"prereq_wait", "install_wait", "probe_wait"}
    /\ elapsed < Deadline
    /\ elapsed' = elapsed + 1
    /\ UNCHANGED <<kind, options, info, env, pc, trace, children, prereq_i, status,
                   cause, result>>

Next ==
    \/ install_Started
    \/ install_CheckingPrerequisites
    \/ can_install_platform
    \/ check_prerequisite_skip
    \/ check_prerequisite_spawn
    \/ check_prerequisite_exit
    \/ check_prerequisite_wait_error
    \/ check_prerequisite_timeout
    \/ install_Installing
    \/ install_spawn
    \/ install_exit
    \/ install_wait_error
    \/ install_timeout
    \/ install_settle
    \/ detect_begin
    \/ probe_exit
    \/ probe_wait_error
    \/ probe_timeout
    \/ install_verified
    \/ Tick

Spec == Init /\ [][Next]_vars

(***************************************************************************)
(* Vocabulary of the properties.                                           *)
(***************************************************************************)
IsProgress(e) == e.t = "progress"

\* The progress events delivered to the callback so far, in order.
Events == LET ps == SelectSeq(trace, IsProgress)
          IN [i \in 1..Len(ps) |-> ps[i].p]

FullOrder(k) ==
    <<Started(k), CheckingPrerequisites, Installing(k), Verifying(k), Completed(k)>>

IsPrefix(a, b) == Len(a) <= Len(b) /\ a = SubSeq(b, 1, Len(a))

LastEvent == Events[Len(Events)]

Returned == pc = "done"
Failed == Returned /\ result.tag = "Err"
EndedIn(stage) == Returned /\ Unwrap(cause).stage = stage
EndedBy(stage, what) == EndedIn(stage) /\ Unwrap(cause).what = what

SpawnedRoles == {children[i].role : i \in 1..Len(children)}
SpawnAttempts(role) == {i \in 1..Len(trace) : trace[i].t = "spawn" /\ trace[i].role = role}
Index(entry) == {i \in 1..Len(trace) : trace[i] = entry}
Before(i, entry) == \E j \in Index(entry) : j < i

\* C1: a successful install delivers exactly Started, CheckingPrerequisites,
\* Installing, Verifying, Completed, in that order and each once.
C1_SuccessfulInstallEvents ==
    (Returned /\ result = Ok) => Events = FullOrder(kind)

C1_Witness == Returned /\ result = Ok /\ Len(info.prerequisites) > 0

\* C2: whatever the outcome, the events delivered are a prefix of the fixed
\* order, in every state of the call, and a returned call has delivered at
\* least Started.
C2_EventsArePrefix ==
    /\ IsPrefix(Events, FullOrder(kind))
    /\ Returned => (Len(Events) >= 1 /\ Events[1] = Started(kind))

C2_Witness == Failed /\ Len(Events) = 3

\* C3: each progress event precedes the work of its stage: no prerequisite
\* check is spawned before CheckingPrerequisites, the install command is not
\* spawned before Installing, the settle delay, the detection and its probe
\* do not begin before Verifying, and Completed follows a detection that
\* found the agent Installed.
C3_EventBeforeWork ==
    \A i \in 1..Len(trace) :
        LET e == trace[i] IN
        /\ (e.t = "spawn" /\ e.role = "prereq")
              => Before(i, Progress(CheckingPrerequisites))
        /\ (e.t = "spawn" /\ e.role = "install")
              => Before(i, Progress(Installing(kind)))
        /\ (e.t \in {"sleep", "detect"} \/ (e.t = "spawn" /\ e.role = "probe"))
              => Before(i, Progress(Verifying(kind)))
        /\ e = Progress(Completed(kind))
              => /\ Before(i, [t |-> "detect", agent |-> kind])
                 /\ Before(i, [t |-> "sleep", ms |-> SETTLE_DELAY_MS])
                 /\ IsSome(status) /\ Unwrap(status).variant = "Installed"

C3_Witness ==
    /\ Returned /\ result = Ok
    /\ SpawnedRoles = {"prereq", "install", "probe"}

\* C4: when a prerequisite check fails, install returns the checker's error
\* as it is, the last event is CheckingPrerequisites and the install command
\* is never spawned.
C4_PrerequisiteFailure ==
    EndedIn("prereq") =>
        LET prereq == info.prerequisites[prereq_i]
            c == Unwrap(cause)
        IN /\ result = (IF c.what = "exit"
                        THEN check_prerequisite_output(prereq, c.out)
                        ELSE Err(PrerequisiteMissing(prereq)))
           /\ result.tag = "Err"
           /\ result.err.variant \in {"PrerequisiteMissing", "PrerequisiteVersionMismatch"}
           /\ LastEvent = CheckingPrerequisites
           /\ SpawnAttempts("install") = {}
           /\ "install" \notin SpawnedRoles

C4_Witness ==
    /\ EndedBy("prereq", "timeout")
    /\ result.err.variant = "PrerequisiteMissing"

C6_ZeroExitVerification ==
    \A j \in Index(ExitEntry("install", Some(0))) :
        /\ Len(trace) > j /\ trace[j + 1] = Progress(Verifying(kind))
        /\ Len(trace) > j + 1 => trace[j + 2] = [t |-> "sleep", ms |-> SETTLE_DELAY_MS]
        /\ Len(trace) > j + 2 => trace[j + 3] = [t |-> "detect", agent |-> kind]
        /\ Returned =>
              /\ EndedIn("verify")
              /\ IsSome(status)
              /\ IF Unwrap(status).variant = "Installed"
                 THEN result = Ok /\ LastEvent = Completed(kind)
                 ELSE /\ result.tag = "Err"
                      /\ result.err.variant = "VerificationFailed"
                      /\ result.err.agent = kind
                      /\ LastEvent = Verifying(kind)

C6_Witness ==
    /\ EndedBy("verify", "not_usable")
    /\ Unwrap(status).variant = "Unknown"

\* C7: when options.timeout elapses before the install command finishes,
\* install returns Timeout carrying options.timeout, and Installing is the
\* last event delivered.
C7_InstallTimeout ==
    EndedBy("install", "timeout") =>
        /\ result.tag = "Err"
        /\ result.err.variant = "Timeout"
        /\ result.err.duration = options.timeout
        /\ LastEvent = Installing(kind)
        /\ \A i \in 1..Len(Events) : Events[i].stage \notin {"Verifying", "Completed"}

C7_Witness == EndedBy("install", "timeout") /\ options.timeout > 0

\* The substrings of stderr that executor.rs:119-123 takes for a network failure.
NetworkMarkers == {"network", "connection", "resolve", "ETIMEDOUT", "ENOTFOUND"}

\* C8: a non-zero exit of the install command ends the call: with Network
\* when the captured stderr holds a network marker, otherwise with
\* InstallerFailed carrying the exit code, stdout and stderr; Verifying is
\* not reported.
C8_NonZeroExit ==
    /\ \A j \in 1..Len(trace) :
          (trace[j].t = "exit" /\ trace[j].role = "install" /\ trace[j].code # Some(0))
              => EndedBy("install", "exit")
    /\ EndedBy("install", "exit") =>
          LET out == Unwrap(cause).out
              stderr == from_utf8_lossy(out.stderr)
          IN /\ out.code # Some(0)
             /\ result.tag = "Err"
             /\ IF \E m \in NetworkMarkers : Contains(stderr, m)
                THEN /\ result.err.variant = "Network"
                     /\ result.err.stderr = Some(stderr)
                ELSE /\ result.err.variant = "InstallerFailed"
                     /\ result.err.exit_code = out.code
                     /\ result.err.stdout = Some(from_utf8_lossy(out.stdout))
                     /\ result.err.stderr = Some(stderr)
             /\ LastEvent = Installing(kind)

C8_Witness ==
    /\ EndedBy("install", "exit")
    /\ result.err.variant = "Network"
    /\ Contains(Unwrap(result.err.stderr), "resolve")

\* C9: when the install command cannot be spawned, install returns
\* PermissionDenied for a permission failure and otherwise InstallerFailed
\* without exit code, stdout or stderr; Installing is the last event.
C9_SpawnFailure ==
    EndedBy("install", "spawn_error") =>
        /\ result.tag = "Err"
        /\ IF Unwrap(cause).error = "PermissionDenied"
           THEN result.err.variant = "PermissionDenied"
           ELSE /\ result.err.variant = "InstallerFailed"
                /\ result.err.exit_code = None
                /\ result.err.stdout = None
                /\ result.err.stderr = None
        /\ LastEvent = Installing(kind)
        /\ "install" \notin SpawnedRoles

C9_Witness ==
    /\ EndedBy("install", "spawn_error")
    /\ Unwrap(cause).error = "PermissionDenied"

\* C10: every InstallError that install returns, on any failure path,
\* carries a non-empty fix.
C10_EveryErrorHasFix ==
    Failed => Len(fix_suggestion(result.err)) > 0

C10_Witness ==
    /\ Failed
    /\ result.err.variant = "PrerequisiteMissing"
    /\ result.err.install_url = None

(***************************************************************************)
(* InstallError as a value any caller may build (install/errors.rs:26-132: *)
(* the fields of an enum variant are public), and fix_suggestion applied   *)
(* to it.  The specifications below run over the variables declared above: *)
(* here cause holds the error at hand and result what the method returned; *)
(* the variables a specification has no use for keep their initial value.  *)
(***************************************************************************)
FixInputs == {"", "Install Node.js", "Check PATH and restart terminal"}

\* errors.rs:34-132: the eight variants, their fields drawn from small sets.
InstallErrorValues ==
    [variant : {"PrerequisiteMissing"}, name : {"Node.js", ""},
     install_url : {None, Some("https://nodejs.org")}, fix : FixInputs]
    \cup [variant : {"PrerequisiteVersionMismatch"}, name : {"Node.js", ""},
          required : {"18+"}, found : {"16.0.0", ""}, fix : FixInputs]
    \cup [variant : {"Network"}, message : {"Connection refused"},
          stderr : {None, Some("ENOTFOUND")}, fix : FixInputs]
    \cup [variant : {"PermissionDenied"},
          message : {"Cannot write to /usr/local/bin"}, fix : FixInputs]
    \cup [variant : {"Timeout"}, duration : 0..MaxTimeout, fix : FixInputs]
    \cup [variant : {"InstallerFailed"}, message : {"npm install failed"},
          exit_code : ExitCodes, stdout : {None, Some("")},
          stderr : {None, Some("EACCES")}, fix : FixInputs]
    \cup [variant : {"VerificationFailed"}, agent : AgentKind, fix : FixInputs]
    \cup [variant : {"UnsupportedPlatform"}, agent : AgentKind, fix : FixInputs]

ErrorInit ==
    /\ cause \in InstallErrorValues
    /\ pc = "fix_suggestion"
    /\ result = Pending
    /\ kind = None /\ options = None /\ info = None /\ env = None
    /\ trace = <<>> /\ children = <<>> /\ elapsed = 0 /\ prereq_i = 1
    /\ status = None

\* errors.rs:152-163
InstallError_fix_suggestion ==
    /\ pc = "fix_suggestion"
    /\ result' = [tag |-> "Ok", val |-> fix_suggestion(cause)]
    /\ pc' = "done"
    /\ UNCHANGED <<kind, options, info, env, trace, children, elapsed, prereq_i,
                   status, cause>>

ErrorNext == InstallError_fix_suggestion

ErrorSpec == ErrorInit /\ [][ErrorNext]_vars

\* C11: every InstallError variant, constructed with any field values,
\* yields a non-empty fix_suggestion().
C11_EveryVariantHasFix ==
    pc = "done" => Len(result.val) > 0

(***************************************************************************)
(* detect_with_options, detect_one and detect_all_with_options             *)
(* (detect.rs:95-180, 275-283) as calls of their own.  Over the variables  *)
(* declared above: kind is Some(k) for detect_with_options(k, options) and *)
(* None for detect_all_with_options(options), which takes no agent;        *)
(* options is the DetectOptions; pc, status and trace hold one value per   *)
(* agent (the position of its detection, the AgentStatus it returned, its  *)
(* dealings with the OS); elapsed is the time since the call began; result *)
(* is what the call returned.                                              *)
(***************************************************************************)
\* all, were the last variant left out.
all_without_last == <<"ClaudeCode", "Codex", "OpenCode">>

\* agent_kind.rs:110-112  AgentKind::all(): the variants in declaration order
all == <<"ClaudeCode", "Codex", "OpenCode", "Gemini">>

\* The agents a call detects, in the order their detections are first polled.
Called == IF IsSome(kind) THEN <<Unwrap(kind)>> ELSE all

CalledSet == {Called[i] : i \in 1..Len(Called)}

\* Where agent k's executable lies on a host, by situation: absent; on PATH;
\* present but not executable in a system directory; executable under HOME.
Placement(k, situation) ==
    LET n == executable_name(k) IN
    CASE situation = 0 -> [exists |-> {}, executable |-> {}]
      [] situation = 1 -> [exists |-> {Join(HostPath[1], n)},
                           executable |-> {Join(HostPath[1], n)}]
      [] situation = 2 -> [exists |-> {Join(FALLBACK_PATHS[1], n)},
                           executable |-> {}]
      [] situation = 3 -> [exists |-> {HostHome \o "/.local/bin/" \o n},
                           executable |-> {HostHome \o "/.local/bin/" \o n}]

\* Hosts holding the four agents in the four situations, one each, in turn.
DetectHostInputs ==
    {Host(UNION {Placement(all[i], (i + r) % 4).exists : i \in 1..Len(all)},
          UNION {Placement(all[i], (i + r) % 4).executable : i \in 1..Len(all)})
       : r \in 0..3}

DetectOptionsInputs == [timeout : 0..MaxTimeout, skip_version : BOOLEAN]

DetectInit ==
    /\ kind \in {None} \cup {Some(k) : k \in AgentKind}
    /\ options \in DetectOptionsInputs
    /\ env \in DetectHostInputs
    /\ pc = [k \in AgentKind |-> IF k \in CalledSet THEN "start" ELSE "idle"]
    /\ trace = [k \in AgentKind |-> <<>>]
    /\ status = [k \in AgentKind |-> None]
    /\ children = <<>>
    /\ elapsed = 0
    /\ result = Pending
    /\ info = None /\ prereq_i = 1 /\ cause = None

\* join_all polls its futures in order, and each runs up to its first wait:
\* a detection begins once those before it have, and none is resumed before
\* all have begun.
MayBegin(k) ==
    \E i \in 1..Len(Called) :
       /\ Called[i] = k
       /\ \A j \in 1..(i - 1) : pc[Called[j]] # "start"

AllBegun == \A k \in CalledSet : pc[k] # "start"

\* join_all_polls, were each detection awaited before the next is begun.
polls_one_after_another(k) ==
    \E i \in 1..Len(Called) :
       /\ Called[i] = k
       /\ \A j \in 1..(i - 1) : pc[Called[j]] = "returned"

\* detect.rs:278-282: whether the detection of agent k may take its next
\* step.  A lone detect_with_options is simply awaited.
join_all_polls(k) == IF pc[k] = "start" THEN MayBegin(k) ELSE AllBegun

ProbedEntry(res) == [t |-> "probed", res |-> res]
TimeoutEntry == [t |-> "timeout"]

\* The probe of agent k among the children.
ProbeOf(k) == CHOOSE i \in 1..Len(children) : children[i].agent = k

\* detect_with_options returns st for agent k.
DetectReturn(k, st, entries) ==
    /\ status' = [status EXCEPT ![k] = Some(st)]
    /\ pc' = [pc EXCEPT ![k] = "returned"]
    /\ trace' = [trace EXCEPT ![k] = trace[k] \o entries]

\* detect_with_options_begin, were the probe run whatever skip_version says.
detect_with_options_begin_probing_always(k) ==
    /\ pc[k] = "start"
    /\ join_all_polls(k)
    /\ LET found == find_executable(env, executable_name(k))
           path == Unwrap(found)
       IN IF ~IsSome(found)
          THEN /\ DetectReturn(k, NotInstalled, <<>>)
               /\ UNCHANGED children
          ELSE \/ /\ path \in env.executable
                  /\ children' = Append(children,
                        [role |-> "probe", agent |-> k, program |-> path,
                         args |-> <<"--version">>, state |-> "running",
                         since |-> elapsed])
                  /\ trace' = [trace EXCEPT ![k] = <<SpawnEntry("probe", TRUE)>>]
                  /\ pc' = [pc EXCEPT ![k] = "probe_wait"]
                  /\ UNCHANGED status
               \/ \E e \in IoErrorKinds :
                  /\ path \notin env.executable => e = "PermissionDenied"
                  /\ DetectReturn(k, detect_from_probe(k, path, check_version_io_error(e)),
                                  <<SpawnEntry("probe", FALSE),
                                    ProbedEntry(check_version_io_error(e))>>)
                  /\ UNCHANGED children
    /\ UNCHANGED <<kind, options, info, env, elapsed, prereq_i, cause, result>>

\* detect.rs:97-115, version.rs:33-45: the executable is resolved; unless
\* versions are skipped, the probe is spawned, or cannot be.  A file that
\* may not be executed fails to spawn with PermissionDenied.
detect_with_options_begin(k) ==
    /\ pc[k] = "start"
    /\ join_all_polls(k)
    /\ LET found == find_executable(env, executable_name(k))
           path == Unwrap(found)
       IN IF ~IsSome(found)
          THEN /\ DetectReturn(k, NotInstalled, <<>>)
               /\ UNCHANGED children
          ELSE IF options.skip_version
          THEN /\ DetectReturn(k, Installed(path, None, None), <<>>)
               /\ UNCHANGED children
          ELSE \/ /\ path \in env.executable
                  /\ children' = Append(children,
                        [role |-> "probe", agent |-> k, program |-> path,
                         args |-> <<"--version">>, state |-> "running",
                         since |-> elapsed])
                  /\ trace' = [trace EXCEPT ![k] = <<SpawnEntry("probe", TRUE)>>]
                  /\ pc' = [pc EXCEPT ![k] = "probe_wait"]
                  /\ UNCHANGED status
               \/ \E e \in IoErrorKinds :
                  /\ path \notin env.executable => e = "PermissionDenied"
                  /\ DetectReturn(k, detect_from_probe(k, path, check_version_io_error(e)),
                                  <<SpawnEntry("probe", FALSE),
                                    ProbedEntry(check_version_io_error(e))>>)
                  /\ UNCHANGED children
    /\ UNCHANGED <<kind, options, info, env, elapsed, prereq_i, cause, result>>

\* version.rs:36-58, detect.rs:115-152: agent k's probe ran to its end
check_version_exit(k) ==
    /\ pc[k] = "probe_wait"
    /\ join_all_polls(k)
    /\ children' = [children EXCEPT ![ProbeOf(k)].state = "exited"]
    /\ \E out \in ProbeOutputs :
          DetectReturn(k, detect_from_probe(k, children[ProbeOf(k)].program,
                                            check_version_output(out)),
                       <<ExitEntry("probe", out.code),
                         ProbedEntry(check_version_output(out))>>)
    /\ UNCHANGED <<kind, options, info, env, elapsed, prereq_i, cause, result>>

\* version.rs:39-45: waiting for agent k's probe failed
check_version_wait_error(k) ==
    /\ pc[k] = "probe_wait"
    /\ join_all_polls(k)
    /\ children' = [children EXCEPT ![ProbeOf(k)].state = "killed"]
    /\ \E e \in IoErrorKinds :
          DetectReturn(k, detect_from_probe(k, children[ProbeOf(k)].program,
                                            check_version_io_error(e)),
                       <<ProbedEntry(check_version_io_error(e))>>)
    /\ UNCHANGED <<kind, options, info, env, elapsed, prereq_i, cause, result>>

\* check_version_timeout, were one probe's timeout to end every detection
\* still waiting.
check_version_timeout_cancels_all(k) ==
    /\ pc[k] = "probe_wait"
    /\ join_all_polls(k)
    /\ elapsed - children[ProbeOf(k)].since >= options.timeout
    /\ children' = [i \in 1..Len(children) |->
                      IF children[i].state = "running"
                      THEN [children[i] EXCEPT !.state = "killed"]
                      ELSE children[i]]
    /\ status' = [a \in AgentKind |->
                    IF pc[a] = "probe_wait" THEN Some(NotInstalled) ELSE status[a]]
    /\ pc' = [a \in AgentKind |->
                IF pc[a] = "probe_wait" THEN "returned" ELSE pc[a]]
    /\ trace' = [trace EXCEPT ![k] = trace[k] \o <<TimeoutEntry, ProbedEntry(Err("Timeout"))>>]
    /\ UNCHANGED <<kind, options, info, env, elapsed, prereq_i, cause, result>>

\* version.rs:36-38, detect.rs:117: options.timeout elapsed first; dropping
\* the probe's future kills it (kill_on_drop).
check_version_timeout(k) ==
    /\ pc[k] = "probe_wait"
    /\ join_all_polls(k)
    /\ elapsed - children[ProbeOf(k)].since >= options.timeout
    /\ children' = [children EXCEPT ![ProbeOf(k)].state = "killed"]
    /\ DetectReturn(k, detect_from_probe(k, children[ProbeOf(k)].program,
                                         Err("Timeout")),
                    <<TimeoutEntry, ProbedEntry(Err("Timeout"))>>)
    /\ UNCHANGED <<kind, options, info, env, elapsed, prereq_i, cause, result>>

\* A second passes while probes are awaited; a probe's timeout fires before
\* time passes its deadline.
DetectTick ==
    /\ \E k \in CalledSet : pc[k] = "probe_wait" /\ join_all_polls(k)
    /\ \A k \in CalledSet :
          pc[k] = "probe_wait" =>
             elapsed - children[ProbeOf(k)].since < options.timeout
    /\ elapsed' = elapsed + 1
    /\ UNCHANGED <<kind, options, info, env, pc, trace, children, prereq_i, status,
                   cause, result>>

Returns(v) == [tag |-> "Returned", val |-> v]

\* detect.rs:95-153: the caller of detect_with_options receives the status.
detect_with_options_return ==
    /\ IsSome(kind)
    /\ result = Pending
    /\ pc[Unwrap(kind)] = "returned"
    /\ result' = Returns(Unwrap(status[Unwrap(kind)]))
    /\ UNCHANGED <<kind, options, info, env, pc, trace, children, elapsed, prereq_i,
                   status, cause>>

OkOf(v) == [tag |-> "Ok", val |-> v]

\* detect_one, were only an installed agent a successful detection.
detect_one_ok_only_if_installed(k, st) ==
    <<k, IF st.variant = "Installed" THEN OkOf(st)
         ELSE Err(IF st.variant = "Unknown" THEN st.error ELSE "IoError")>>

\* detect_one, were an agent that is not installed reported as a timeout.
detect_one_not_installed_as_timeout(k, st) ==
    <<k, CASE st.variant = "Installed" -> OkOf(st)
           [] st.variant = "NotInstalled" -> Err("Timeout")
           [] st.variant = "VersionMismatch" -> OkOf(st)
           [] st.variant = "Unknown" -> Err(st.error)
           [] OTHER -> OkOf(st)>>

\* detect.rs:161-180: the pair detect_one makes of a detection's status.
detect_one(k, st) ==
    <<k, CASE st.variant = "Installed" -> OkOf(st)
           [] st.variant = "NotInstalled" -> OkOf(st)
           [] st.variant = "VersionMismatch" -> OkOf(st)
           [] st.variant = "Unknown" -> Err(st.error)
           [] OTHER -> OkOf(st)>>

\* Iterator::collect into a HashMap: the pairs are inserted in order, a later
\* one replacing an earlier one of the same key.
collect(pairs) ==
    [k \in {pairs[i][1] : i \in 1..Len(pairs)} |->
        LET last == CHOOSE i \in 1..Len(pairs) :
                      /\ pairs[i][1] = k
                      /\ \A j \in (i + 1)..Len(pairs) : pairs[j][1] # k
        IN pairs[last][2]]

\* detect.rs:275-283: join_all completes when every detect_one has; its
\* outputs, in the order of the futures, are collected into the map.
detect_all_with_options_return ==
    /\ ~IsSome(kind)
    /\ result = Pending
    /\ \A k \in CalledSet : pc[k] = "returned"
    /\ result' = Returns(collect([i \in 1..Len(Called) |->
                                    detect_one(Called[i], Unwrap(status[Called[i]]))]))
    /\ UNCHANGED <<kind, options, info, env, pc, trace, children, elapsed, prereq_i,
                   status, cause>>

DetectNext ==
    \/ \E k \in AgentKind : detect_with_options_begin(k)
    \/ \E k \in AgentKind : check_version_exit(k)
    \/ \E k \in AgentKind : check_version_wait_error(k)
    \/ \E k \in AgentKind : check_version_timeout(k)
    \/ DetectTick
    \/ detect_with_options_return
    \/ detect_all_with_options_return

DetectSpec == DetectInit /\ [][DetectNext]_vars

(***************************************************************************)
(* Vocabulary of the detection properties.                                 *)
(***************************************************************************)
Done(k) == pc[k] = "returned"
StatusOf(k) == Unwrap(status[k])
Resolved(k) == find_executable(env, executable_name(k))
SpawnTried(k) == \E i \in 1..Len(trace[k]) : trace[k][i].t = "spawn"
HasChild(k) == \E i \in 1..Len(children) : children[i].agent = k
TimedOut(k) == \E i \in 1..Len(trace[k]) : trace[k][i] = TimeoutEntry
\* What check_version returned to agent k's detection.
ProbedAs(k, res) == \E i \in 1..Len(trace[k]) : trace[k][i] = ProbedEntry(res)
ProbeResults(k) == {trace[k][i].res : i \in {j \in 1..Len(trace[k]) : trace[k][j].t = "probed"}}
CallReturned == result # Pending
AllWhite(s) == \A i \in 1..Len(s) : IsSpace(CharAt(s, i))
\* r is s without its leading and trailing white space.
IsTrimOf(r, s) ==
    /\ r = "" \/ (~IsSpace(CharAt(r, 1)) /\ ~IsSpace(CharAt(r, Len(r))))
    /\ \E i \in 0..Len(s) :
          /\ i + Len(r) <= Len(s)
          /\ SubSeq(s, i + 1, i + Len(r)) = r
          /\ AllWhite(SubSeq(s, 1, i))
          /\ AllWhite(SubSeq(s, i + Len(r) + 1, Len(s)))

C13_ProbeErrorIsUnknown ==
    \A k \in AgentKind :
       Done(k) =>
         \A res \in ProbeResults(k) :
            (res.tag = "Err" /\ res.err # "Timeout") =>
               /\ res.err \in {"PermissionDenied", "IoError", "VersionParseFailed"}
               /\ StatusOf(k).variant = "Unknown"
               /\ StatusOf(k).error = res.err
               /\ Len(StatusOf(k).message) > 0

C13_Witness ==
    /\ IsSome(kind)
    /\ CallReturned
    /\ ProbedAs(Unwrap(kind), Err("VersionParseFailed"))
    /\ result.val.variant = "Unknown"
    /\ result.val.error = "VersionParseFailed"

\* C14: when the probe succeeds but no version parses from its output, the
\* detection still ends in Installed, with version absent and raw_version
\* the probe's output without its surrounding white space.
C14_UnparsedVersionIsStillInstalled ==
    \A k \in AgentKind :
       Done(k) =>
         \A res \in ProbeResults(k) :
            (res.tag = "Ok" /\ ~IsSome(parse_version(res.val))) =>
               /\ StatusOf(k).variant = "Installed"
               /\ StatusOf(k).version = None
               /\ IsSome(StatusOf(k).raw_version)
               /\ IsTrimOf(Unwrap(StatusOf(k).raw_version), res.val)

C14_Witness ==
    /\ IsSome(kind)
    /\ CallReturned
    /\ ProbedAs(Unwrap(kind), OkOf("dev build\n"))
    /\ result.val.variant = "Installed"
    /\ result.val.version = None
    /\ result.val.raw_version = Some("dev build")

\* C15: with skip_version set, a detection whose executable resolves ends in
\* Installed with version and raw_version absent, any other ends in
\* NotInstalled, and no version probe is ever spawned.
C15_SkipVersion ==
    options.skip_version =>
       /\ children = <<>>
       /\ \A k \in AgentKind :
             /\ ~SpawnTried(k)
             /\ Done(k) =>
                  IF IsSome(Resolved(k))
                  THEN /\ StatusOf(k).variant = "Installed"
                       /\ StatusOf(k).path = Unwrap(Resolved(k))
                       /\ StatusOf(k).version = None
                       /\ StatusOf(k).raw_version = None
                  ELSE StatusOf(k) = NotInstalled

C15_Witness ==
    /\ options.skip_version
    /\ IsSome(kind)
    /\ CallReturned
    /\ result.val.variant = "Installed"
    /\ result.val.version = None
    /\ result.val.raw_version = None
    /\ ~SpawnTried(Unwrap(kind))

\* C16: detect never returns VersionMismatch: whatever the agent and the
\* options, the outcome is Installed, NotInstalled or Unknown.
C16_NeverVersionMismatch ==
    /\ \A k \in AgentKind :
          Done(k) => StatusOf(k).variant \in {"Installed", "NotInstalled", "Unknown"}
    /\ (IsSome(kind) /\ CallReturned) =>
          result.val.variant \in {"Installed", "NotInstalled", "Unknown"}

C16_Witness ==
    /\ IsSome(kind)
    /\ CallReturned
    /\ result.val.variant = "Installed"
    /\ IsSome(result.val.version)
    /\ Unwrap(result.val.version).major = "0"

\* C17: every Installed outcome carries a path that exists on the host the
\* call resolved it on.
C17_InstalledPathExists ==
    \A k \in AgentKind :
       (Done(k) /\ StatusOf(k).variant = "Installed") =>
          StatusOf(k).path \in env.exists

C17_Witness ==
    /\ IsSome(kind)
    /\ CallReturned
    /\ result.val.variant = "Installed"
    /\ result.val.path = HostHome \o "/.local/bin/" \o executable_name(Unwrap(kind))
    /\ result.val.path \in env.exists

\* C18: a detection run with skip_version unset that ends in Installed has
\* raw_version present, so at least one of version and raw_version is.
C18_RawVersionPresent ==
    ~options.skip_version =>
       \A k \in AgentKind :
          (Done(k) /\ StatusOf(k).variant = "Installed") =>
             /\ IsSome(StatusOf(k).raw_version)
             /\ IsSome(StatusOf(k).version) \/ IsSome(StatusOf(k).raw_version)

C18_Witness ==
    /\ ~options.skip_version
    /\ IsSome(kind)
    /\ CallReturned
    /\ result.val.variant = "Installed"
    /\ result.val.version = None
    /\ IsSome(result.val.raw_version)

\* C19: detect_all returns, once every agent's detection has finished, a map
\* with exactly one entry per known agent: none missing, none twice.
C19_OneEntryPerAgent ==
    (~IsSome(kind) /\ CallReturned) =>
       /\ \A k \in AgentKind : Done(k)
       /\ \A i \in 1..Len(children) : children[i].state # "running"
       /\ DOMAIN result.val = AgentKind
       /\ Cardinality(DOMAIN result.val) = Cardinality(AgentKind)
       /\ \A i, j \in 1..Len(Called) : Called[i] = Called[j] => i = j

C19_Witness ==
    /\ ~IsSome(kind)
    /\ CallReturned
    /\ \E k \in AgentKind : result.val[k].tag = "Err"
    /\ \E k \in AgentKind : result.val[k] = OkOf(NotInstalled)
    /\ \E k \in AgentKind : result.val[k].tag = "Ok" /\ result.val[k].val.variant = "Installed"

SomeVersionMismatch ==
    [variant |-> "VersionMismatch", path |-> "/usr/bin/codex",
     found |-> [major |-> "0", minor |-> "87", patch |-> "0"],
     required |-> [major |-> "1", minor |-> "0", patch |-> "0"]]

\* C20: in detect_all's map an agent's entry is Err(e) exactly when its
\* detection ended in Unknown with error e; any other outcome (Installed,
\* NotInstalled, VersionMismatch) is the entry's Ok.
C20_UnknownIsErr ==
    (~IsSome(kind) /\ CallReturned) =>
       /\ \A k \in DOMAIN result.val :
             /\ result.val[k].tag = "Err" <=> StatusOf(k).variant = "Unknown"
             /\ StatusOf(k).variant = "Unknown" => result.val[k] = Err(StatusOf(k).error)
             /\ StatusOf(k).variant # "Unknown" => result.val[k] = OkOf(StatusOf(k))
       /\ \A k \in AgentKind : detect_one(k, SomeVersionMismatch) = <<k, OkOf(SomeVersionMismatch)>>

C20_Witness ==
    /\ ~IsSome(kind)
    /\ CallReturned
    /\ \E k \in AgentKind :
          /\ StatusOf(k).variant = "Unknown"
          /\ StatusOf(k).error = "PermissionDenied"
          /\ result.val[k] = Err("PermissionDenied")
    /\ \E k \in AgentKind :
          /\ StatusOf(k).variant = "Installed"
          /\ result.val[k] = OkOf(StatusOf(k))

\* The status a detection of agent k alone comes to, from the host, the
\* options and what k's own probe did.
OwnStatus(k) ==
    IF ~IsSome(Resolved(k)) THEN NotInstalled
    ELSE IF options.skip_version THEN Installed(Unwrap(Resolved(k)), None, None)
    ELSE detect_from_probe(k, Unwrap(Resolved(k)),
                           CHOOSE res \in ProbeResults(k) : TRUE)

ChildState(k) == IF HasChild(k) THEN children[ProbeOf(k)].state ELSE "none"

\* In detect_all's map the entry of each agent is what its own detection
\* came to, and a child is killed only by its own detection.
C21_EntryIsOwnOutcome ==
    /\ (~IsSome(kind) /\ CallReturned) =>
          \A k \in AgentKind :
             result.val[k] = IF OwnStatus(k).variant = "Unknown"
                             THEN Err(OwnStatus(k).error)
                             ELSE OkOf(OwnStatus(k))
    /\ \A k \in AgentKind :
          ChildState(k) = "killed" =>
             \/ TimedOut(k)
             \/ ProbedAs(k, Err("IoError"))
             \/ ProbedAs(k, Err("PermissionDenied"))

\* A step of one agent's detection leaves every other agent's detection as
\* it was: its position, its status, its dealings with the OS, its child.
C21_StepLeavesOthersAlone ==
    \A a, b \in AgentKind :
       (a # b /\ pc'[a] # pc[a]) =>
          /\ pc'[b] = pc[b]
          /\ status'[b] = status[b]
          /\ trace'[b] = trace[b]
          /\ \A i \in 1..Len(children) :
                children[i].agent = b => children'[i] = children[i]

\* C21: in detect_all each agent's result is isolated: the entry recorded
\* for an agent is what a detection of that agent alone produces, whatever
\* the other detections come to, and no detection is cancelled or held up
\* because another one failed or finished.
C21_DetectionsAreIsolated ==
    []C21_EntryIsOwnOutcome /\ [][C21_StepLeavesOthersAlone]_vars

C21_Witness ==
    /\ ~IsSome(kind)
    /\ ~CallReturned
    /\ \E a, b \in AgentKind :
          /\ TimedOut(a) /\ Done(a)
          /\ pc[b] = "probe_wait"
          /\ ChildState(b) = "running"

\* C22: detect_all runs the detections concurrently: every probe is started
\* when the call begins, so the call takes at most one probe timeout, the
\* time of its slowest detection, and not the sum of the detections' times.
C22_BoundedBySlowestProbe ==
    ~IsSome(kind) =>
       /\ elapsed <= options.timeout
       /\ \A i \in 1..Len(children) : children[i].since = 0
       /\ (CallReturned /\ children = <<>>) => elapsed = 0

C22_Witness ==
    /\ ~IsSome(kind)
    /\ CallReturned
    /\ options.timeout > 0
    /\ elapsed = options.timeout
    /\ \E a, b \in AgentKind : a # b /\ TimedOut(a) /\ TimedOut(b)

(***************************************************************************)
(* install abandoned by its caller: the future is dropped at one of its    *)
(* waits, and with it the Command future of the child being awaited, whose *)
(* kill_on_drop(true) (executor.rs:74, prereq.rs:84, version.rs:34) kills  *)
(* the child.                                                              *)
(***************************************************************************)
install_cancelled ==
    /\ pc \in {"prereq_wait", "install_wait", "probe_wait"}
    /\ children' = Finish("killed")
    /\ pc' = "cancelled"
    /\ UNCHANGED <<kind, options, info, env, trace, elapsed, prereq_i, status,
                   cause, result>>

CancellableNext == Next \/ install_cancelled

CancellableSpec == Init /\ [][CancellableNext]_vars

RunningChildren == {i \in 1..Len(children) : children[i].state = "running"}

\* C23: once a call has returned or has been cancelled, no child it spawned
\* (prerequisite check, install command, version probe) is still running;
\* a child whose timeout fired was killed; and while the call runs only the
\* child being awaited does.
C23_NoChildOutlivesTheCall ==
    /\ pc \in {"done", "cancelled"} => RunningChildren = {}
    /\ (Returned /\ Unwrap(cause).what = "timeout") =>
          children[Len(children)].state = "killed"
    /\ RunningChildren \subseteq {Len(children)}
    /\ RunningChildren # {} => pc \in {"prereq_wait", "install_wait", "probe_wait"}
    /\ \A i \in 1..Len(children) : children[i].role \in {"prereq", "install", "probe"}

C23_Witness ==
    /\ pc = "cancelled"
    /\ Len(children) >= 2
    /\ children[Len(children)].role = "probe"
    /\ children[Len(children)].state = "killed"
    /\ \E i \in 1..Len(children) :
          children[i].role = "install" /\ children[i].state = "exited"

(***************************************************************************)
(* check_version(path, timeout_duration) (detection/version.rs:29-59) as a *)
(* call of its own, on any path.  Over the variables declared above:       *)
(* options holds the two arguments, cause what the OS did, result what the *)
(* call returned.                                                          *)
(***************************************************************************)
ProbePaths == {"/bin/ls", "/opt/tool/bin/agent", "/nonexistent/path/to/executable"}

\* A host on which the first path can be run, the second exists but cannot
\* be, and the third does not exist.
ProbeHost == Host({"/bin/ls", "/opt/tool/bin/agent"}, {"/bin/ls"})

\* What the probed program may leave behind: ProbeOutputs, and outputs whose
\* stderr is not valid UTF-8.
CheckVersionOutputs ==
    ProbeOutputs \cup {Output(c, so, "~") : c \in {Some(0), Some(1)},
                                            so \in {"", "1.2.3\n"}}

\* The errors Command::spawn can report for a path on a host.
SpawnErrors(host, path) ==
    IF path \notin host.exists THEN {"NotFound"}
    ELSE IF path \notin host.executable THEN {"PermissionDenied"}
    ELSE IoErrorKinds

CheckVersionInit ==
    /\ options \in [path : ProbePaths, timeout : 0..MaxTimeout]
    /\ env = ProbeHost
    /\ pc = "call"
    /\ children = <<>>
    /\ elapsed = 0
    /\ cause = None
    /\ result = Pending
    /\ kind = None /\ info = None /\ trace = <<>> /\ prereq_i = 1 /\ status = None

\* version.rs:33-45: the first poll of cmd.output() spawns the program, or
\* fails to.
check_version_spawn ==
    /\ pc = "call"
    /\ \/ /\ options.path \in env.executable
          /\ children' = Spawned("probe", options.path, <<"--version">>)
          /\ elapsed' = 0
          /\ pc' = "wait"
          /\ UNCHANGED <<cause, result>>
       \/ \E e \in SpawnErrors(env, options.path) :
          /\ result' = check_version_io_error(e)
          /\ cause' = Some([what |-> "spawn_error", error |-> e])
          /\ pc' = "done"
          /\ UNCHANGED <<children, elapsed>>
    /\ UNCHANGED <<kind, options, info, env, trace, prereq_i, status>>

\* version.rs:36-58: the program ran to its end
check_version_child_exit ==
    /\ pc = "wait"
    /\ \E out \in CheckVersionOutputs :
          /\ result' = check_version_output(out)
          /\ cause' = Some([what |-> "exit", out |-> out])
    /\ children' = Finish("exited")
    /\ pc' = "done"
    /\ UNCHANGED <<kind, options, info, env, trace, elapsed, prereq_i, status>>

\* version.rs:39-45: waiting for the program failed
check_version_child_error ==
    /\ pc = "wait"
    /\ \E e \in IoErrorKinds :
          /\ result' = check_version_io_error(e)
          /\ cause' = Some([what |-> "wait_error", error |-> e])
    /\ children' = Finish("killed")
    /\ pc' = "done"
    /\ UNCHANGED <<kind, options, info, env, trace, elapsed, prereq_i, status>>

\* version.rs:36-38: timeout_duration elapsed first
check_version_elapsed ==
    /\ pc = "wait"
    /\ elapsed >= options.timeout
    /\ result' = Err("Timeout")
    /\ cause' = Some([what |-> "timeout"])
    /\ children' = Finish("killed")
    /\ pc' = "done"
    /\ UNCHANGED <<kind, options, info, env, trace, elapsed, prereq_i, status>>

CheckVersionTick ==
    /\ pc = "wait"
    /\ elapsed < options.timeout
    /\ elapsed' = elapsed + 1
    /\ UNCHANGED <<kind, options, info, env, pc, trace, children, prereq_i, status,
                   cause, result>>

CheckVersionNext ==
    \/ check_version_spawn
    \/ check_version_child_exit
    \/ check_version_child_error
    \/ check_version_elapsed
    \/ CheckVersionTick

CheckVersionSpec == CheckVersionInit /\ [][CheckVersionNext]_vars

\* The bytes check_version decodes: stdout, or stderr when stdout is empty.
SelectedBytes(out) == IF Len(out.stdout) > 0 THEN out.stdout ELSE out.stderr
HasInvalidByte(b) == \E i \in 1..Len(b) : CharAt(b, i) = "~"
CauseIs(what) == pc = "done" /\ Unwrap(cause).what = what
IoFailed == CauseIs("spawn_error") \/ CauseIs("wait_error")

\* C24: the probe gives Timeout when its timeout elapsed, PermissionDenied
\* on an OS permission failure, IoError on any other failure to run the
\* program (a path that does not exist included) and on a non-zero exit
\* status, VersionParseFailed when the program succeeded and the bytes it
\* would return are not valid UTF-8; it always returns a text or one of
\* these four errors.
C24_ProbeFailureMapping ==
    pc = "done" =>
       /\ CauseIs("timeout") => result = Err("Timeout")
       /\ IoFailed =>
             result = IF Unwrap(cause).error = "PermissionDenied"
                      THEN Err("PermissionDenied") ELSE Err("IoError")
       /\ options.path \notin env.exists =>
             result = Err("IoError") /\ children = <<>>
       /\ CauseIs("exit") =>
             LET out == Unwrap(cause).out IN
             /\ out.code # Some(0) => result = Err("IoError")
             /\ (out.code = Some(0) /\ HasInvalidByte(SelectedBytes(out))) =>
                   result = Err("VersionParseFailed")
             /\ (out.code = Some(0) /\ ~HasInvalidByte(SelectedBytes(out))) =>
                   result.tag = "Ok"
       /\ \/ result.tag = "Ok"
          \/ /\ result.tag = "Err"
             /\ result.err \in {"Timeout", "PermissionDenied", "IoError",
                                "VersionParseFailed"}

C24_Witness ==
    /\ pc = "done"
    /\ options.path = "/opt/tool/bin/agent"
    /\ CauseIs("spawn_error")
    /\ result = Err("PermissionDenied")

\* C25: the text of a successful probe is the program's stdout when that is
\* not empty and its stderr only when stdout is empty, never the two joined.
C25_StdoutElseStderr ==
    (CauseIs("exit") /\ result.tag = "Ok") =>
       LET out == Unwrap(cause).out IN
       /\ Len(out.stdout) > 0 => result.val = out.stdout
       /\ Len(out.stdout) = 0 => result.val = out.stderr

C25_Witness ==
    /\ CauseIs("exit")
    /\ Unwrap(cause).out.stdout = "2.1.12 (Claude Code)\n"
    /\ Unwrap(cause).out.stderr = "codex-cli 0.87.0"
    /\ result = OkOf("2.1.12 (Claude Code)\n")

(***************************************************************************)
(* Two consecutive calls of detect_with_options(k, options) (detect.rs:    *)
(* 95-153) on a host that does not change: the files stay where they are   *)
(* and the agent's program does the same thing each time it is run.  Over  *)
(* the variables declared above: env is the host with what its program     *)
(* does, status the statuses returned so far, elapsed the time since the   *)
(* first call began.                                                       *)
(***************************************************************************)
\* What the agent's program does when run with --version: it leaves out and
\* ends in the course of the second that follows `after` whole seconds.
ProgramBehaviours ==
    [out : {Output(c, so, "") : c \in {Some(0), Some(1)},
                                so \in {"2.1.12 (Claude Code)\n", "dev build\n", "~"}},
     after : 0..MaxTimeout]

RepeatHostInputs ==
    {[path |-> h.path, home |-> h.home, exists |-> h.exists,
      executable |-> h.executable, out |-> b.out, after |-> b.after]
       : h \in DetectHostInputs, b \in ProgramBehaviours}

RepeatInit ==
    /\ kind \in {Some(k) : k \in AgentKind}
    /\ options \in DetectOptionsInputs
    /\ env \in RepeatHostInputs
    /\ pc = "start"
    /\ status = <<>>
    /\ children = <<>>
    /\ elapsed = 0
    /\ result = Pending
    /\ info = None /\ trace = <<>> /\ prereq_i = 1 /\ cause = None

\* The call at hand returns st; a second call follows the first.
RepeatReturn(st) ==
    /\ status' = Append(status, st)
    /\ pc' = IF Len(status) = 0 THEN "start" ELSE "done"

\* detect.rs:97-115, version.rs:33-45: a call resolves the executable and,
\* unless versions are skipped, spawns the probe under a timeout of its own.
repeat_detect_begin ==
    /\ pc = "start"
    /\ LET k == Unwrap(kind)
           found == find_executable(env, executable_name(k))
           path == Unwrap(found)
       IN IF ~IsSome(found)
          THEN RepeatReturn(NotInstalled) /\ UNCHANGED children
          ELSE IF options.skip_version
          THEN RepeatReturn(Installed(path, None, None)) /\ UNCHANGED children
          ELSE IF path \notin env.executable
          THEN /\ RepeatReturn(detect_from_probe(k, path,
                                  check_version_io_error("PermissionDenied")))
               /\ UNCHANGED children
          ELSE /\ children' = Append(children,
                     [role |-> "probe", agent |-> k, program |-> path,
                      args |-> <<"--version">>, state |-> "running",
                      since |-> elapsed])
               /\ pc' = "probe_wait"
               /\ UNCHANGED status
    /\ UNCHANGED <<kind, options, info, env, trace, elapsed, prereq_i, cause, result>>

\* The time the probe of the call at hand has been awaited.
Waited == elapsed - children[Len(children)].since

\* version.rs:36-58, detect.rs:115-152: the program ended before the timeout
repeat_probe_exit ==
    /\ pc = "probe_wait"
    /\ Waited = env.after
    /\ Waited < options.timeout
    /\ children' = Finish("exited")
    /\ RepeatReturn(detect_from_probe(Unwrap(kind), children[Len(children)].program,
                                      check_version_output(env.out)))
    /\ UNCHANGED <<kind, options, info, env, trace, elapsed, prereq_i, cause, result>>

\* repeat_probe_timeout, were the deadline counted from the first call.
repeat_probe_timeout_stale_deadline ==
    /\ pc = "probe_wait"
    /\ elapsed >= options.timeout
    /\ children' = Finish("killed")
    /\ RepeatReturn(detect_from_probe(Unwrap(kind), children[Len(children)].program,
                                      Err("Timeout")))
    /\ UNCHANGED <<kind, options, info, env, trace, elapsed, prereq_i, cause, result>>

\* version.rs:36-38, detect.rs:117: the timeout elapsed while the program ran
repeat_probe_timeout ==
    /\ pc = "probe_wait"
    /\ Waited = options.timeout
    /\ children' = Finish("killed")
    /\ RepeatReturn(detect_from_probe(Unwrap(kind), children[Len(children)].program,
                                      Err("Timeout")))
    /\ UNCHANGED <<kind, options, info, env, trace, elapsed, prereq_i, cause, result>>

RepeatTick ==
    /\ pc = "probe_wait"
    /\ Waited < env.after
    /\ Waited < options.timeout
    /\ elapsed' = elapsed + 1
    /\ UNCHANGED <<kind, options, info, env, pc, trace, children, prereq_i, status,
                   cause, result>>

RepeatNext ==
    \/ repeat_detect_begin
    \/ repeat_probe_exit
    \/ repeat_probe_timeout
    \/ RepeatTick

RepeatSpec == RepeatInit /\ [][RepeatNext]_vars

ParseTokens == {"", "1", "02", ".", "v", " ", "1.2", ".3", "x"}

\* Texts put together from four tokens, and texts of the kind programs print.
ParseInputs ==
    {a \o b \o c \o d : a \in ParseTokens, b \in ParseTokens,
                        c \in ParseTokens, d \in ParseTokens}
    \cup {"2.1.12 (Claude Code)", "codex-cli 0.87.0", "V2.0.0", "v0.24.4",
          "version 1.2.3 is available", "version 1.2", "no version here",
          "1.2 and 3.4.5", "1.2.3 and 4.5", "2024.01.15 v1.2.3",
          "1.02.3 4.5.6", "1.2 3.04.5", "vv1.2.3", "1.2.3.4",
          "18446744073709551615.0.1", "18446744073709551616.0.1",
          "1.18446744073709551616", "7.18446744073709551615"}

ParseInit ==
    /\ options \in [output : ParseInputs]
    /\ pc = "call"
    /\ result = Pending
    /\ kind = None /\ info = None /\ env = None /\ trace = <<>>
    /\ children = <<>> /\ elapsed = 0 /\ prereq_i = 1 /\ status = None
    /\ cause = None

\* parser.rs:30-75
parse_version_call ==
    /\ pc = "call"
    /\ result' = Returns(parse_version(options.output))
    /\ pc' = "done"
    /\ UNCHANGED <<kind, options, info, env, trace, children, elapsed, prereq_i,
                   status, cause>>

ParseNext == parse_version_call

ParseSpec == ParseInit /\ [][ParseNext]_vars

(***************************************************************************)
(* Vocabulary of the parsing properties.                                   *)
(***************************************************************************)
Parsed == pc = "done"
Text == options.output
\* The first match of each pattern in the text, as the regex engine finds it.
First3 == Match3(Text)
First2 == Match2(Text)
RawOf(m) == SubSeq(Text, Unwrap(m).start, Unwrap(m).end)
\* A number as semver takes it: digits, no leading zero, within u64.
WellFormedNumber(d) == SemverNumber(d)
First3WellFormed ==
    /\ IsSome(First3)
    /\ WellFormedNumber(Unwrap(First3).a)
    /\ WellFormedNumber(Unwrap(First3).b)
    /\ WellFormedNumber(Unwrap(First3).c)
First2WellFormed ==
    /\ IsSome(First2)
    /\ WellFormedNumber(Unwrap(First2).a)
    /\ WellFormedNumber(Unwrap(First2).b)
First2Followed ==
    /\ IsSome(First2)
    /\ CharAt(Text, Unwrap(First2).end + 1) = "."
    /\ IsDigit(CharAt(Text, Unwrap(First2).end + 2))
\* The three-part versions standing in the text as words of their own:
\* [vV]?X.Y.Z of well-formed numbers, not part of a longer run of digits
\* and dots.
WordChar(c) == IsDigit(c) \/ c = "."
WellFormed3At(i, j) ==
    LET w == SubSeq(Text, i, j)
        m == Match3(w)
    IN /\ IsSome(m)
       /\ Unwrap(m).start = 1
       /\ Unwrap(m).end = Len(w)
       /\ WellFormedNumber(Unwrap(m).a)
       /\ WellFormedNumber(Unwrap(m).b)
       /\ WellFormedNumber(Unwrap(m).c)
       /\ ~WordChar(CharAt(Text, i - 1))
       /\ ~WordChar(CharAt(Text, j + 1))
       /\ (CharAt(w, 1) \notin {"v", "V"} => CharAt(Text, i - 1) \notin {"v", "V"})
WellFormed3Words ==
    {<<i, j>> \in (1..Len(Text)) \X (1..Len(Text)) : i <= j /\ WellFormed3At(i, j)}
FirstWellFormed3 ==
    CHOOSE w \in WellFormed3Words : \A u \in WellFormed3Words : w[1] <= u[1]
VersionOf(a, b, c) == [major |-> a, minor |-> b, patch |-> c]

\* C27 as stated: whenever the text contains a well-formed three-part
\* version, parse returns the first such version and its matched substring.
C27_AnyWellFormedThreePartIsReturned ==
    (Parsed /\ WellFormed3Words # {}) =>
       LET w == SubSeq(Text, FirstWellFormed3[1], FirstWellFormed3[2])
           m == Unwrap(Match3(w))
       IN result.val = Some(<<VersionOf(m.a, m.b, m.c), w>>)

\* C27: whenever the first three-part match [vV]?X.Y.Z of the text is well
\* formed, parse returns that version exactly together with the matched
\* substring, whatever two-part match the text holds, also before it.
C27_FirstThreePartIsReturned ==
    (Parsed /\ First3WellFormed) =>
       result.val = Some(<<VersionOf(Unwrap(First3).a, Unwrap(First3).b,
                                     Unwrap(First3).c), RawOf(First3)>>)

C27_Witness ==
    /\ Parsed
    /\ Text = "1.2 and 3.4.5"
    /\ Unwrap(First2).start < Unwrap(First3).start
    /\ result.val = Some(<<VersionOf("3", "4", "5"), "3.4.5">>)

\* C28 as stated: when the text has no three-part match, the first two-part
\* match is returned with a zero patch and its matched substring, unless it
\* is followed by '.' and a digit, when nothing is returned.
C28_FirstTwoPartIsAccepted ==
    (Parsed /\ ~IsSome(First3) /\ IsSome(First2)) =>
       IF First2Followed THEN result.val = None
       ELSE /\ IsSome(result.val)
            /\ Unwrap(result.val)[2] = RawOf(First2)
            /\ Unwrap(result.val)[1].patch = "0"

\* C28: when the text has no three-part match, parse returns the first
\* two-part match, if it is well formed, as X.Y.0 together with the matched
\* substring, and nothing if it is not; and when no three-part version is
\* returned and the first two-part match is followed by '.' and a digit,
\* parse returns nothing.
C28_WellFormedTwoPartIsAccepted ==
    /\ (Parsed /\ ~IsSome(First3) /\ IsSome(First2)) =>
          result.val = IF First2WellFormed
                       THEN Some(<<VersionOf(Unwrap(First2).a, Unwrap(First2).b, "0"),
                                   RawOf(First2)>>)
                       ELSE None
    /\ (Parsed /\ ~First3WellFormed /\ First2Followed) => result.val = None

C28_Witness ==
    /\ Parsed
    /\ Text = "version 1.2"
    /\ result.val = Some(<<VersionOf("1", "2", "0"), "1.2">>)

C28_FollowedWitness ==
    /\ Parsed
    /\ Text = "1.2.02"
    /\ First2WellFormed
    /\ First2Followed
    /\ result.val = None

ResolveNames == {"claude", "codex"}

\* PATH settings: empty; one directory; two; a system directory first; the
\* user's own directory.
ResolvePaths ==
    { <<>>, <<"/opt/a/bin">>, <<"/opt/a/bin", "/opt/b/bin">>,
      <<"/usr/bin", "/opt/a/bin">>, <<HostHome \o "/.local/bin">> }

ResolveDirs ==
    {"/opt/a/bin", "/opt/b/bin", "/usr/local/bin", "/usr/bin",
     HostHome \o "/.local/bin", HostHome \o "/bin"}

ResolveHosts(name) ==
    LET files == {Join(d, name) : d \in ResolveDirs} IN
    { [path |-> p, home |-> h, exists |-> ex, executable |-> x] :
        p \in ResolvePaths, h \in {None, Some(HostHome)},
        ex \in SUBSET files, x \in SUBSET files }

ResolveInit ==
    /\ options \in [name : ResolveNames]
    /\ env \in {h \in ResolveHosts(options.name) : h.executable \subseteq h.exists}
    /\ pc = "call"
    /\ result = Pending
    /\ kind = None /\ info = None /\ trace = <<>>
    /\ children = <<>> /\ elapsed = 0 /\ prereq_i = 1 /\ status = None
    /\ cause = None

\* path_finder.rs:64-82
find_executable_call ==
    /\ pc = "call"
    /\ result' = Returns(find_executable(env, options.name))
    /\ pc' = "done"
    /\ UNCHANGED <<kind, options, info, env, trace, children, elapsed, prereq_i,
                   status, cause>>

ResolveNext == find_executable_call

ResolveSpec == ResolveInit /\ [][ResolveNext]_vars

(***************************************************************************)
(* Vocabulary of the resolution properties.                                *)
(***************************************************************************)
\* The candidates in the order of their sources, each with its source.
Candidates ==
    [i \in 1..Len(env.path) |->
        [source |-> "path", file |-> Join(env.path[i], options.name)]]
    \o [i \in 1..Len(FALLBACK_PATHS) |->
        [source |-> "system", file |-> Join(FALLBACK_PATHS[i], options.name)]]
    \o (IF IsSome(env.home)
        THEN << [source |-> "home",
                 file |-> Unwrap(env.home) \o "/.local/bin/" \o options.name],
                [source |-> "home",
                 file |-> Unwrap(env.home) \o "/bin/" \o options.name] >>
        ELSE <<>>)
Existing == {i \in DOMAIN Candidates : Candidates[i].file \in env.exists}
\* A PATH candidate counts when it is an executable file, any other when
\* it exists.
Qualifying ==
    {i \in DOMAIN Candidates :
        IF Candidates[i].source = "path"
        THEN Candidates[i].file \in env.executable
        ELSE Candidates[i].file \in env.exists}
IsAbsent == result = Returns(None)
IsFile(i) == result = Returns(Some(Candidates[i].file))

\* C30 as stated: the first candidate that exists, in the order PATH,
\* system directories, user directories, is returned, and absent when
\* none exists.
C30_FirstExistingCandidate ==
    pc = "done" =>
       IF Existing = {} THEN IsAbsent ELSE IsFile(Min(Existing))

\* C30: the candidates are tried in the order PATH, system directories,
\* user directories; a PATH candidate is taken when it is an executable
\* file and any other when it exists; the first one so taken is returned
\* (an earlier source wins over a later one), and when there is none the
\* call returns absent; it returns a path or absent, never an error.
C30_FirstQualifyingCandidate ==
    pc = "done" =>
       /\ IF Qualifying = {} THEN IsAbsent ELSE IsFile(Min(Qualifying))
       /\ result.tag = "Returned"

C30_Witness ==
    /\ pc = "done"
    /\ Cardinality({Candidates[i].source : i \in Qualifying}) = 3
    /\ Candidates[Min(Qualifying)].source = "path"
    /\ IsFile(Min(Qualifying))

C30_SkippedWitness ==
    /\ pc = "done"
    /\ Existing # {}
    /\ Candidates[Min(Existing)].source = "path"
    /\ Min(Existing) \notin Qualifying
    /\ Qualifying # {}
    /\ Candidates[Min(Qualifying)].source = "home"
    /\ IsFile(Min(Qualifying))

(***************************************************************************)
(* check_prerequisite(prereq) (install/prereq.rs:67-162) called on one     *)
(* prerequisite.  Over the variables declared above: info holds the        *)
(* prerequisite, children the check command once spawned, elapsed the      *)
(* seconds waited in timeout(PREREQ_CHECK_TIMEOUT, ..), trace the spawn    *)
(* attempts, cause what the OS did that ended the call, result what the    *)
(* call returned.                                                          *)
(***************************************************************************)
\* Prerequisites as types.rs:118-131 lets them be built: with a minimum in the
\* name or without, one whose minimum does not fit a u32; without a check
\* command, with a blank one, with one; with and without an install URL.
PrerequisiteInputs ==
    [name : {"Node.js 18+", "Node.js 20+", "npm", "Tool 4294967296+"},
     check_command : {None, Some("  "), Some("node --version")},
     install_url : {None, Some("https://nodejs.org")}]

\* What a check command may print and how it may end.
CheckOutputs ==
    {Output(c, so, se) : c \in ExitCodes,
                         so \in {"v20.11.0\n", "v18.0.0\n", "v16.3.1\n", "16.03",
                                 "v4294967296.1.0", "19.4294967296", "19", "", "~"},
                         se \in {"", "node: command not found", "v22.1.0"}}

CheckInit ==
    /\ info \in PrerequisiteInputs
    /\ pc = "call"
    /\ trace = <<>>
    /\ children = <<>>
    /\ elapsed = 0
    /\ cause = None
    /\ result = Pending
    /\ kind = None /\ options = None /\ env = None /\ prereq_i = 1 /\ status = None

\* check_prerequisite_none, were a prerequisite that cannot be checked
\* reported as missing.
check_prerequisite_none_as_missing ==
    /\ pc = "call"
    /\ ~HasCheckCommand(info)
    /\ Return(Err(PrerequisiteMissing(info)), Some([what |-> "no_command"]))
    /\ UNCHANGED <<kind, options, info, env, trace, children, elapsed, prereq_i,
                   status>>

\* prereq.rs:68-77: no check command, or a blank one: Ok at once
check_prerequisite_none ==
    /\ pc = "call"
    /\ ~HasCheckCommand(info)
    /\ Return(Ok, Some([what |-> "no_command"]))
    /\ UNCHANGED <<kind, options, info, env, trace, children, elapsed, prereq_i,
                   status>>

\* prereq.rs:79-103: the check command is spawned, or cannot be
check_prerequisite_run ==
    /\ pc = "call"
    /\ HasCheckCommand(info)
    /\ LET parts == split_whitespace(Unwrap(info.check_command))
       IN \/ /\ trace' = Append(trace, SpawnEntry("prereq", TRUE))
             /\ children' = Spawned("prereq", parts[1], Tail(parts))
             /\ elapsed' = 0
             /\ pc' = "wait"
             /\ UNCHANGED <<cause, result>>
          \/ \E k \in IoErrorKinds :
             /\ trace' = Append(trace, SpawnEntry("prereq", FALSE))
             /\ Return(Err(PrerequisiteMissing(info)),
                       Some([what |-> "spawn_error", error |-> k]))
             /\ UNCHANGED <<children, elapsed>>
    /\ UNCHANGED <<kind, options, info, env, prereq_i, status>>

\* prereq.rs:86-87 and 105-161: the check command ran to its end
check_prerequisite_done ==
    /\ pc = "wait"
    /\ children' = Finish("exited")
    /\ \E out \in CheckOutputs :
          Return(check_prerequisite_output(info, out),
                 Some([what |-> "exit", out |-> out]))
    /\ UNCHANGED <<kind, options, info, env, trace, elapsed, prereq_i, status>>

\* check_prerequisite_failed, were a failed wait taken for a satisfied
\* prerequisite.
check_prerequisite_failed_as_satisfied ==
    /\ pc = "wait"
    /\ children' = Finish("killed")
    /\ \E k \in IoErrorKinds :
          Return(Ok, Some([what |-> "wait_error", error |-> k]))
    /\ UNCHANGED <<kind, options, info, env, trace, elapsed, prereq_i, status>>

\* prereq.rs:88-102, Ok(Err(_)): waiting for the child failed
check_prerequisite_failed ==
    /\ pc = "wait"
    /\ children' = Finish("killed")
    /\ \E k \in IoErrorKinds :
          Return(Err(PrerequisiteMissing(info)),
                 Some([what |-> "wait_error", error |-> k]))
    /\ UNCHANGED <<kind, options, info, env, trace, elapsed, prereq_i, status>>

\* prereq.rs:88-102, Err(_): PREREQ_CHECK_TIMEOUT elapsed first; the dropped
\* future kills the child.
check_prerequisite_elapsed ==
    /\ pc = "wait"
    /\ elapsed >= PREREQ_CHECK_TIMEOUT
    /\ children' = Finish("killed")
    /\ Return(Err(PrerequisiteMissing(info)), Some([what |-> "timeout"]))
    /\ UNCHANGED <<kind, options, info, env, trace, elapsed, prereq_i, status>>

\* A second passes while the call waits for the check command.
CheckTick ==
    /\ pc = "wait"
    /\ elapsed < PREREQ_CHECK_TIMEOUT
    /\ elapsed' = elapsed + 1
    /\ UNCHANGED <<kind, options, info, env, pc, trace, children, prereq_i, status,
                   cause, result>>

CheckNext ==
    \/ check_prerequisite_none
    \/ check_prerequisite_run
    \/ check_prerequisite_done
    \/ check_prerequisite_failed
    \/ check_prerequisite_elapsed
    \/ CheckTick

CheckSpec == CheckInit /\ [][CheckNext]_vars

(***************************************************************************)
(* Vocabulary of the prerequisite properties.                              *)
(***************************************************************************)
Checked == pc = "done"
CheckedBy(what) == Checked /\ Unwrap(cause).what = what
IsMissing(r, prereq) ==
    /\ r.tag = "Err"
    /\ r.err.variant = "PrerequisiteMissing"
    /\ r.err.name = prereq.name

\* C31: a prerequisite that declares no check command is satisfied: the
\* call returns Ok, and it has spawned nothing nor tried to.
C31_NoCheckCommandIsSatisfied ==
    (Checked /\ info.check_command = None) =>
       /\ result = Ok
       /\ children = <<>>
       /\ trace = <<>>
       /\ elapsed = 0

C31_Witness ==
    /\ Checked
    /\ info.check_command = None
    /\ info.name = "npm"
    /\ result = Ok

\* The text the checker reads: stdout unless it is empty, else stderr.
CheckedText(out) == IF out.stdout # "" THEN out.stdout ELSE out.stderr
\* A digit, a dot and a digit stand somewhere in the text.
HasMajorMinor(s) ==
    \E i \in 1..Len(s) :
        IsDigit(CharAt(s, i)) /\ CharAt(s, i + 1) = "." /\ IsDigit(CharAt(s, i + 2))
Killed == \E i \in 1..Len(children) : children[i].state = "killed"
SpawnFailed == \E i \in 1..Len(trace) : trace[i] = SpawnEntry("prereq", FALSE)

\* C32: for a prerequisite with a check command, a command that cannot be
\* started, a wait that fails, the elapse of PREREQ_CHECK_TIMEOUT, and an
\* output holding no major.minor version each make the call return
\* PrerequisiteMissing naming the prerequisite, never Ok.
C32_UnverifiableIsMissing ==
    Checked =>
       /\ (CheckedBy("spawn_error") \/ CheckedBy("wait_error") \/ CheckedBy("timeout"))
             => IsMissing(result, info)
       /\ (SpawnFailed \/ Killed) => IsMissing(result, info)
       /\ (CheckedBy("exit") /\ ~HasMajorMinor(CheckedText(Unwrap(cause).out)))
             => IsMissing(result, info)
       /\ CheckedBy("timeout") => elapsed = PREREQ_CHECK_TIMEOUT

C32_Witness ==
    /\ CheckedBy("timeout")
    /\ elapsed = PREREQ_CHECK_TIMEOUT
    /\ Killed
    /\ IsMissing(result, info)

C32_UnparsedWitness ==
    /\ CheckedBy("exit")
    /\ Unwrap(cause).out.stdout = "19"
    /\ Unwrap(cause).out.stderr = "v22.1.0"
    /\ IsMissing(result, info)

\* The minimum the name encodes and the version the command reported, as
\* the digits written: the first <N>+ of the name, the first major.minor of
\* the text read.
NameMinimum == MinVersionCapture(info.name)
Reported == VersionCaptures(from_utf8_lossy(CheckedText(Unwrap(cause).out)))
\* Two runs of digits compared as numbers of any size.
NumberLess(a, b) ==
    LET x == StripLeadingZeros(a)
        y == StripLeadingZeros(b)
    IN \/ Len(x) < Len(y)
       \/ Len(x) = Len(y) /\ ~DigitsLeq(y, x)
IsMismatch(r, required, found) ==
    /\ r.tag = "Err"
    /\ r.err.variant = "PrerequisiteVersionMismatch"
    /\ r.err.name = info.name
    /\ r.err.required = required
    /\ r.err.found = found
VersionChecked == CheckedBy("exit") /\ IsSome(NameMinimum) /\ IsSome(Reported)

\* C33: with a minimum N in the name and a reported major M, the
\* call returns PrerequisiteVersionMismatch with required "N+" and the
\* reported major.minor as found when M < N, and Ok when M >= N.
C33_BelowMinimumIsMismatch ==
    VersionChecked =>
       LET N == Unwrap(NameMinimum)
           M == Unwrap(Reported).major
           m == Unwrap(Reported).minor
       IN IF NumberLess(M, N)
          THEN IsMismatch(result, N \o "+",
                          StripLeadingZeros(M) \o "." \o StripLeadingZeros(m))
          ELSE result = Ok

(***************************************************************************)
(* Timeouts of the version probe, under DetectSpec.                        *)
(***************************************************************************)
\* C34: when the probe takes longer than options.timeout, the detection
\* returns a timeout error: an outcome carrying DetectionError::Timeout.
C34_TimeoutIsReturnedAsError ==
    \A k \in AgentKind :
       (Done(k) /\ TimedOut(k)) =>
          /\ StatusOf(k).variant = "Unknown"
          /\ StatusOf(k).error = "Timeout"

CompletedAt == {i \in 1..Len(Events) : Events[i].stage = "Completed"}

\* C35: install returns Ok exactly when Completed was delivered to the
\* callback; Completed is then the last event, delivered once, of a call
\* that has returned Ok; a call that returns an error never delivered it.
C35_OkIffCompleted ==
    /\ Returned => (result = Ok <=> CompletedAt # {})
    /\ CompletedAt # {} =>
          /\ CompletedAt = {Len(Events)}
          /\ LastEvent = Completed(kind)
          /\ trace[Len(trace)] = Progress(Completed(kind))
          /\ Returned /\ result = Ok
    /\ Failed => CompletedAt = {}

C35_Witness ==
    /\ Returned
    /\ result = Ok
    /\ CompletedAt = {5}

C35_FailedWitness ==
    /\ EndedBy("verify", "not_usable")
    /\ CompletedAt = {}
    /\ LastEvent = Verifying(kind)

InstallChildren == {i \in 1..Len(children) : children[i].role = "install"}
CommandOf(child) == StructuredCommand(child.program, child.args)
Alternatives == {info.alternatives[i] : i \in 1..Len(info.alternatives)}

\* C36: within one install call the primary install command is spawned at
\* most once, no second attempt is made however it fails, and no child runs
\* one of the agent's alternative install commands.
C36_PrimaryOnceNoAlternative ==
    /\ Cardinality(SpawnAttempts("install")) <= 1
    /\ Cardinality(InstallChildren) <= 1
    /\ \A i \in InstallChildren : CommandOf(children[i]) = info.primary
    /\ \A i \in 1..Len(children) : CommandOf(children[i]) \notin Alternatives

C36_Witness ==
    /\ EndedBy("install", "exit")
    /\ Failed
    /\ Alternatives # {}
    /\ Cardinality(InstallChildren) = 1
    /\ children[Len(children)].state = "exited"

\* The verification's probe, when one was spawned, and how it ended.
ProbeChildren == {i \in 1..Len(children) : children[i].role = "probe"}
ProbeExits == {i \in 1..Len(trace) : trace[i].t = "exit" /\ trace[i].role = "probe"}
ProbeTimedOut ==
    /\ ProbeChildren # {}
    /\ children[Len(children)].state = "killed"
    /\ IsSome(status)
    /\ Unwrap(status) = NotInstalled
ExecutableResolves == IsSome(find_executable(env, executable_name(kind)))

\* C37: the verification detects with the default options, whatever
\* options.timeout is: an executable that resolves is probed, and the probe
\* times out after the default probe timeout; when the probe times out
\* (NotInstalled) or fails (Unknown) install returns VerificationFailed
\* although the executable resolves, and when the status is Installed with a
\* version that could not be parsed install returns Ok.
C37_VerificationUsesDefaultOptions ==
    /\ (IsSome(status) /\ ExecutableResolves) => SpawnAttempts("probe") # {}
    /\ ProbeTimedOut => elapsed = DEFAULT_DETECT_TIMEOUT
    /\ (Returned /\ ProbeTimedOut) =>
          /\ ExecutableResolves
          /\ result = Err(VerificationFailed(kind))
    /\ (EndedIn("verify") /\ Unwrap(status).variant = "Unknown") =>
          /\ ExecutableResolves
          /\ result = Err(VerificationFailed(kind))
    /\ (EndedIn("verify") /\ Unwrap(status).variant = "Installed") =>
          /\ result = Ok
          /\ ProbeExits # {}

C37_Witness ==
    /\ Returned
    /\ ProbeTimedOut
    /\ options.timeout # DEFAULT_DETECT_TIMEOUT
    /\ ExecutableResolves
    /\ result.err.variant = "VerificationFailed"

C37_UnparsedWitness ==
    /\ EndedIn("verify")
    /\ Unwrap(status).variant = "Installed"
    /\ Unwrap(status).version = None
    /\ IsSome(Unwrap(status).raw_version)
    /\ result = Ok

(***************************************************************************)
(* The exit status of the check command, under CheckSpec.                  *)
(***************************************************************************)
\* C39: the exit status of the check command is not consulted: a command
\* that ran to its end with a non-zero exit, or killed by a signal, and
\* printed a major.minor whose major is at or above the minimum of the name
\* is accepted, and a reported version is rejected only for a major below
\* the minimum, whatever its minor.
C39_ExitStatusNotConsulted ==
    VersionChecked =>
       LET N == Unwrap(NameMinimum)
           M == Unwrap(Reported).major
       IN /\ (~Success(Unwrap(cause).out) /\ ~NumberLess(M, N)) => result = Ok
          /\ result # Ok => NumberLess(M, N)

(***************************************************************************)
(* Termination of install.  The steps of the call itself are taken when    *)
(* they can be: the runtime polls the future, time passes while it waits   *)
(* and a timeout that has elapsed fires.  Nothing is assumed of a child    *)
(* process: it may never exit.                                             *)
(***************************************************************************)
\* What a child process does, or the OS on its behalf.
ChildSteps ==
    \/ check_prerequisite_exit
    \/ check_prerequisite_wait_error
    \/ install_exit
    \/ install_wait_error
    \/ probe_exit
    \/ probe_wait_error

\* What install does by itself.
InstallSteps ==
    \/ install_Started
    \/ install_CheckingPrerequisites
    \/ can_install_platform
    \/ check_prerequisite_skip
    \/ check_prerequisite_spawn
    \/ check_prerequisite_timeout
    \/ install_Installing
    \/ install_spawn
    \/ install_timeout
    \/ install_settle
    \/ detect_begin
    \/ probe_timeout
    \/ install_verified
    \/ Tick

TerminationSpec == Init /\ [][Next]_vars /\ WF_vars(InstallSteps)

\* C40: every install call returns, with Ok or with an InstallError, also
\* when a child process never exits: each wait for a child is bounded by
\* its timeout.
C40_InstallTerminates ==
    /\ <>(Returned /\ result.tag \in {"Ok", "Err"})
    /\ [](pc \in {"prereq_wait", "install_wait", "probe_wait"} => elapsed <= Deadline)

C40_Witness ==
    /\ Returned
    /\ SpawnedRoles = {"prereq", "install", "probe"}
    /\ ProbeTimedOut
    /\ elapsed = DEFAULT_DETECT_TIMEOUT
    /\ result.tag = "Err"

====
